---- MODULE Spec2Model ----
(***************************************************************************)
(* A model of msprime/trees.py: the TreeSequence record store and its      *)
(* traversals (sparse_trees, _diffs, _diffs_with_breaks), the              *)
(* NewickGenerator and the HaplotypeGenerator.                             *)
(*                                                                         *)
(* Python dicts are functions with a finite domain, lists and numpy arrays *)
(* are sequences (1-based here, 0-based in the source), a suspended        *)
(* generator is a record holding its local variables and the place (pc) it *)
(* is suspended at.  One action is one call of next() on a generator.      *)
(***************************************************************************)
EXTENDS Integers, Sequences, FiniteSets, TLC

\* Bounds of the model.
MaxSampleSize == 3
MaxNode == 6
NumLoci == 3
MaxMutations == 2
MaxSites == 3
MaxTreeChanges == 1
MaxSeed == 1

VARIABLES
    sample_size,    \* TreeSequence._sample_size
    num_loci,       \* TreeSequence._num_loci
    breakpoints,    \* TreeSequence._breakpoints
    records,        \* TreeSequence._left/_right/_children/_parent/_time, zipped
    consumer,       \* which traversal the caller runs over the tree sequence
    turn,           \* the generator the caller pulls from next
    st,             \* the frame of the sparse_trees() generator
    df,             \* the generator diffs(all_breaks) returned to the caller
    ng,             \* the NewickGenerator
    supplied,       \* the arrays handed to TreeSequence.__init__ by the caller
    ts,             \* the TreeSequence object: its five arrays
    file,           \* what dump() wrote to storage
    hg,             \* the HaplotypeGenerator
    engines,        \* two HaplotypeGenerators built over the same TreeSequence
    mutation_log,   \* the mutations drawn so far: the node and the locus of its interval
    trees_out,      \* what the caller received from sparse_trees(), in order
    diffs_out,      \* what the caller received from diffs(), in order
    newick_out      \* what the caller received from newick_trees(), in order

vars == <<sample_size, num_loci, breakpoints, records, consumer, turn, supplied, ts, file,
          st, df, ng, hg, engines, mutation_log, trees_out, diffs_out, newick_out>>

----------------------------------------------------------------------------
\* Python dicts.

EmptyDict == [x \in {} |-> 0]

DictSet(d, k, v) == [x \in (DOMAIN d) \cup {k} |-> IF x = k THEN v ELSE d[x]]

DictDel(d, k) == [x \in (DOMAIN d) \ {k} |-> d[x]]

RECURSIVE SumSeq(_)
SumSeq(s) == IF s = <<>> THEN 0 ELSE s[1] + SumSeq(Tail(s))

SeqRange(s) == {s[i] : i \in 1..Len(s)}

----------------------------------------------------------------------------
\* The inputs: what the simulator hands to TreeSequence.__init__.

Leaves(n) == 1..n

\* The time of a node: a node is one coalescence event, so every record with
\* the same parent carries the same time; leaves are at time 0.
NodeTime(n, v) == IF v <= n THEN 0 ELSE v - n

\* All binary trees over the lineages, as sets of <<child, child, parent>>,
\* parents numbered upwards in the order of their times.
RECURSIVE Coalesce(_, _)
Coalesce(lineages, minp) ==
    IF Cardinality(lineages) = 1 THEN {{}}
    ELSE UNION { UNION { { {<<a, b, p>>} \cup T :
                             T \in Coalesce((lineages \ {a, b}) \cup {p}, p + 1) } :
                         p \in minp..MaxNode } :
                 <<a, b>> \in {ab \in lineages \X lineages : ab[1] < ab[2]} }

TreesOf == [n \in 2..MaxSampleSize |-> Coalesce(Leaves(n), n + 1)]

\* The tree at each locus: f[x] is the tree of locus x.
TreeMaps(n) == [0..(NumLoci - 1) -> TreesOf[n]]

\* An edge set e of the tree at locus x starts a record there when it is not
\* in the tree of the locus before, or when the simulator cut the records at x.
RecordStarts(f, cuts, e, x) == x = 0 \/ e \notin f[x - 1] \/ x \in cuts

RecordEnds(f, cuts, e, y) == y = NumLoci \/ e \notin f[y] \/ y \in cuts

RecordRight(f, cuts, e, x) ==
    CHOOSE y \in (x + 1)..NumLoci :
        /\ RecordEnds(f, cuts, e, y)
        /\ \A z \in (x + 1)..(y - 1) : ~RecordEnds(f, cuts, e, z)

CoalescenceRecords(n, f, cuts) ==
    { [left |-> x, right |-> RecordRight(f, cuts, e, x),
       children |-> <<e[1], e[2]>>, parent |-> e[3], time |-> NodeTime(n, e[3])] :
      <<x, e>> \in {xe \in (0..(NumLoci - 1)) \X (UNION {f[x] : x \in 0..(NumLoci - 1)}) :
                        xe[2] \in f[xe[1]] /\ RecordStarts(f, cuts, xe[2], xe[1])} }

\* A list of the records in ascending order of left; records with the same
\* left are in ascending or in descending order of their parent.
RecordBefore(a, b, desc) ==
    \/ a.left < b.left
    \/ a.left = b.left /\ (IF desc THEN a.parent > b.parent ELSE a.parent < b.parent)

RECURSIVE SortedRecords(_, _)
SortedRecords(S, desc) ==
    IF S = {} THEN <<>>
    ELSE LET first == CHOOSE a \in S : \A b \in S \ {a} : RecordBefore(a, b, desc)
         IN <<first>> \o SortedRecords(S \ {first}, desc)

RECURSIVE SortedSeq(_)
SortedSeq(S) ==
    IF S = {} THEN <<>>
    ELSE LET m == CHOOSE a \in S : \A b \in S : a <= b
         IN <<m>> \o SortedSeq(S \ {m})

Lefts(recs) == {recs[i].left : i \in 1..Len(recs)}

\* The breakpoints of the simulator: 0, every left, num_loci, and any other locus.
BreakpointLists(recs) ==
    {SortedSeq(B) : B \in {B \in SUBSET (0..NumLoci) : Lefts(recs) \cup {0, NumLoci} \subseteq B}}

----------------------------------------------------------------------------
\* TreeSequence.__init__, dump, load

\* The five arrays that hold a list of records, aligned by index.
Arrays(recs) ==
    [left |-> [i \in 1..Len(recs) |-> recs[i].left],
     right |-> [i \in 1..Len(recs) |-> recs[i].right],
     children |-> [i \in 1..Len(recs) |-> recs[i].children],
     parent |-> [i \in 1..Len(recs) |-> recs[i].parent],
     time |-> [i \in 1..Len(recs) |-> recs[i].time]]

\* Every order in which a set of records can be listed.
RECURSIVE Orderings(_)
Orderings(S) ==
    IF S = {} THEN {<<>>}
    ELSE UNION {{<<a>> \o rest : rest \in Orderings(S \ {a})} : a \in S}

\* The permutations of 1..n.
Perms(n) == {p \in [1..n -> 1..n] : \A i, j \in 1..n : p[i] = p[j] => i = j}

IdentityPerm(n) == [i \in 1..n |-> i]

\* Line 313: np.argsort(left) returns a permutation that lists left in
\* ascending order; the order among equal values is not specified.
argsort(left) ==
    {p \in Perms(Len(left)) : \A i, j \in 1..Len(left) : i < j => left[p[i]] <= left[p[j]]}

\* a[p] for an index array p.
Take(a, p) == [i \in 1..Len(p) |-> a[p[i]]]

NoTreeSequence == [origin |-> "none"]

NoFile == [written |-> FALSE]

\* Mutant of TreeSequenceInit: the sort leaves the time array as it was.
TreeSequenceInitTimeUnsorted(origin, a, sort_records, p) ==
    [origin |-> origin, sort_records |-> sort_records,
     left |-> IF sort_records THEN Take(a.left, p) ELSE a.left,
     right |-> IF sort_records THEN Take(a.right, p) ELSE a.right,
     children |-> IF sort_records THEN Take(a.children, p) ELSE a.children,
     parent |-> IF sort_records THEN Take(a.parent, p) ELSE a.parent,
     time |-> a.time]

\* Lines 296-318: the constructor, for the arrays a; p is what argsort returns.
TreeSequenceInit(origin, a, sort_records, p) ==
    [origin |-> origin, sort_records |-> sort_records,
     left |-> IF sort_records THEN Take(a.left, p) ELSE a.left,
     right |-> IF sort_records THEN Take(a.right, p) ELSE a.right,
     children |-> IF sort_records THEN Take(a.children, p) ELSE a.children,
     parent |-> IF sort_records THEN Take(a.parent, p) ELSE a.parent,
     time |-> IF sort_records THEN Take(a.time, p) ELSE a.time]

\* Lines 340-353: the datasets dump() writes.
dump(t) ==
    [written |-> TRUE, left |-> t.left, right |-> t.right, children |-> t.children,
     parent |-> t.parent, time |-> t.time]

\* Lines 357-366: load() constructs from the datasets, sort_records left at
\* its default.
load(f) == TreeSequenceInit("load", f, FALSE, IdentityPerm(Len(f.left)))

\* Lines 383-385: zip of the five arrays.
TreeSequenceRecords(t) ==
    [i \in 1..Len(t.left) |->
        [left |-> t.left[i], right |-> t.right[i], children |-> t.children[i],
         parent |-> t.parent[i], time |-> t.time[i]]]

----------------------------------------------------------------------------
\* TreeSequence.records

\* The j-th record of records(), 1-based.
Record(j) == records[j]

NumRecords == Len(records)

----------------------------------------------------------------------------
\* TreeSequence.sparse_trees

\* heapq: the list is kept as a priority queue on the tuples
\* (right, (children, parent)), compared as Python compares tuples.
TupleLess(a, b) ==
    \/ a[1] < b[1]
    \/ a[1] = b[1] /\ a[2][1] < b[2][1]
    \/ a[1] = b[1] /\ a[2][1] = b[2][1] /\ a[2][2] < b[2][2]
    \/ a[1] = b[1] /\ a[2] = b[2] /\ a[3] < b[3]

RECURSIVE heappush(_, _)
heappush(h, x) ==
    IF h = <<>> THEN <<x>>
    ELSE IF TupleLess(x, h[1]) THEN <<x>> \o h
    ELSE <<h[1]>> \o heappush(Tail(h), x)

\* Mutant of EvictSegments: only the first expired segment is popped.
EvictOneSegment(f, l) ==
    IF f.live_segments = <<>> THEN [f EXCEPT !.pc = "IndexError"]
    ELSE IF f.live_segments[1][1] > l THEN f
    ELSE LET x == f.live_segments[1]
         IN IF ~({x[2][1], x[2][2]} \subseteq DOMAIN f.pi) \/ x[3] \notin DOMAIN f.tau
            THEN [f EXCEPT !.pc = "KeyError"]
            ELSE [f EXCEPT !.live_segments = Tail(f.live_segments),
                           !.pi = DictDel(DictDel(f.pi, x[2][1]), x[2][2]),
                           !.tau = DictDel(f.tau, x[3])]

\* Lines 408-413: pop every live segment that ends at or before l.
\* A key that is not in the dict is a KeyError; the segment has been popped
\* by then (line 409) and the keys deleted before the missing one are gone.
RECURSIVE EvictSegments(_, _)
EvictSegments(f, l) ==
    IF f.live_segments = <<>> THEN [f EXCEPT !.pc = "IndexError"]
    ELSE IF f.live_segments[1][1] > l THEN f
    ELSE LET x == f.live_segments[1]
             c == x[2]
             p == x[3]
             popped == [f EXCEPT !.live_segments = Tail(f.live_segments)]
             first == [popped EXCEPT !.pi = DictDel(f.pi, c[1])]
             second == [first EXCEPT !.pi = DictDel(first.pi, c[2])]
         IN IF c[1] \notin DOMAIN f.pi THEN [popped EXCEPT !.pc = "KeyError"]
            ELSE IF c[2] \notin DOMAIN first.pi THEN [first EXCEPT !.pc = "KeyError"]
            ELSE IF p \notin DOMAIN f.tau THEN [second EXCEPT !.pc = "KeyError"]
            ELSE EvictSegments([second EXCEPT !.tau = DictDel(f.tau, p)], l)

\* Mutant of SparseApplyRecord: the expired segments are popped after the
\* record has been entered in pi and tau.
SparseApplyRecordSetFirst(f, rec) ==
    LET set == [f EXCEPT !.live_segments =
                             heappush(f.live_segments,
                                      <<rec.right, rec.children, rec.parent>>),
                         !.pi = DictSet(DictSet(f.pi, rec.children[1], rec.parent),
                                        rec.children[2], rec.parent),
                         !.tau = DictSet(f.tau, rec.parent, rec.time)]
    IN EvictSegments(set, rec.left)

\* Lines 407-416: the body of the loop after the yield, for one record.
SparseApplyRecord(f, rec) ==
    LET pushed == [f EXCEPT !.live_segments =
                       heappush(f.live_segments, <<rec.right, rec.children, rec.parent>>)]
        ev == EvictSegments(pushed, rec.left)
    IN IF ev.pc \in {"IndexError", "KeyError"} THEN ev
       ELSE [ev EXCEPT !.pi = DictSet(DictSet(ev.pi, rec.children[1], rec.parent),
                                      rec.children[2], rec.parent),
                       !.tau = DictSet(ev.tau, rec.parent, rec.time)]

\* Line 404: the length yielded when the loop reaches a new left.
SparseLength(f, l) == l - f.last_l

\* Line 421: the length yielded after the last record.
SparseFinalLength(f) == num_loci - f.l

\* Lines 395-421 from the top of the for loop, with record f.j next, up to
\* the next yield.
RECURSIVE SparseLoop(_)
SparseLoop(f) ==
    IF f.pc \in {"IndexError", "KeyError"} THEN f
    ELSE IF f.j > NumRecords
    THEN [f EXCEPT !.pc = "final", !.length = SparseFinalLength(f)]
    ELSE LET rec == Record(f.j)
             g == [f EXCEPT !.l = rec.left]
         IN IF g.last_l # g.l
            THEN [g EXCEPT !.pc = "loop", !.length = SparseLength(g, g.l)]
            ELSE SparseLoop([SparseApplyRecord(g, rec) EXCEPT !.j = f.j + 1])

\* Mutant of SparseInit: the last leaf is missing from tau.
SparseInitShortTau ==
    [pc |-> "start", j |-> 1, l |-> 0, last_l |-> 0, live_segments |-> <<>>,
     pi |-> EmptyDict, tau |-> [v \in 1..(sample_size - 1) |-> 0], length |-> 0]

\* Lines 388-393: the frame when the generator is created.
SparseInit ==
    [pc |-> "start", j |-> 1, l |-> 0, last_l |-> 0, live_segments |-> <<>>,
     pi |-> EmptyDict, tau |-> [v \in 1..sample_size |-> 0], length |-> 0]

\* One call of next() on the generator.
sparse_trees(f) ==
    CASE f.pc = "start" -> SparseLoop(f)
      [] f.pc = "loop" ->
            LET g == [f EXCEPT !.last_l = f.l]
            IN SparseLoop([SparseApplyRecord(g, Record(f.j)) EXCEPT !.j = f.j + 1])
      [] f.pc = "final" -> [f EXCEPT !.pc = "StopIteration"]
      [] f.pc \in {"IndexError", "KeyError"} ->
            [f EXCEPT !.pc = "StopIteration"]  \* a generator that raised is closed
      [] OTHER -> f

Suspended(f) == f.pc \in {"loop", "final", "outer", "inner"}

Finished(f) ==
    f.pc \in {"StopIteration", "IndexError", "KeyError", "AssertionError", "UnboundLocalError"}

\* What the caller holds after a yield of sparse_trees: the length, and the
\* two dicts of the frame themselves (line 404 and line 421 yield pi and tau,
\* not copies).  pi_at_yield and tau_at_yield record what they held then.
SparseYielded(f) ==
    [length |-> f.length, pi |-> "pi", tau |-> "tau",
     pi_at_yield |-> f.pi, tau_at_yield |-> f.tau]

\* What a dict the caller holds contains now.
Deref(ref) == IF ref = "pi" THEN st.pi ELSE st.tau

----------------------------------------------------------------------------
\* TreeSequence._diffs

\* collections.defaultdict(list): a missing key reads as the empty list.
DefaultGet(d, k) == IF k \in DOMAIN d THEN d[k] ELSE <<>>

\* Mutant of DiffsApplyRecord: the list under the right is replaced, not extended.
DiffsApplyRecordOverwrite(f, rec) ==
    LET edge == <<rec.children, rec.parent, rec.time>>
    IN [f EXCEPT !.used_records = DictSet(f.used_records, rec.right, <<edge>>),
                 !.records_in = Append(f.records_in, edge),
                 !.r = rec.right]

\* Mutant of DiffsApplyRecord: the record is filed under its left, not its right.
DiffsApplyRecordKeyLeft(f, rec) ==
    LET edge == <<rec.children, rec.parent, rec.time>>
    IN [f EXCEPT !.used_records = DictSet(f.used_records, rec.left,
                                          Append(DefaultGet(f.used_records, rec.left), edge)),
                 !.records_in = Append(f.records_in, edge),
                 !.r = rec.right]

\* Lines 438-439.
DiffsApplyRecord(f, rec) ==
    LET edge == <<rec.children, rec.parent, rec.time>>
    IN [f EXCEPT !.used_records = DictSet(f.used_records, rec.right,
                                          Append(DefaultGet(f.used_records, rec.right), edge)),
                 !.records_in = Append(f.records_in, edge),
                 !.r = rec.right]

\* Mutant of DiffsYield: records_out is read under the new left.
DiffsYieldNewLeft(f, l) ==
    [length |-> l - f.left,
     records_out |-> DefaultGet(f.used_records, l),
     records_in |-> f.records_in]

\* Line 434: the tuple yielded when the loop reaches a new left.
DiffsYield(f, l) ==
    [length |-> l - f.left,
     records_out |-> DefaultGet(f.used_records, f.left),
     records_in |-> f.records_in]

\* Mutant of DiffsFinalYield: the length runs to the last left, not the last right.
DiffsFinalYieldToLeft(f) ==
    IF f.j = 1 THEN [f EXCEPT !.pc = "UnboundLocalError"]
    ELSE [f EXCEPT !.pc = "final",
                   !.out = [length |-> f.l - f.left,
                            records_out |-> DefaultGet(f.used_records, f.left),
                            records_in |-> f.records_in]]

\* Line 440: the tuple yielded after the last record.  r is bound by the for
\* loop (line 428): when no record was read (j is still 1) it is not bound
\* and line 440 raises an UnboundLocalError.
DiffsFinalYield(f) ==
    IF f.j = 1 THEN [f EXCEPT !.pc = "UnboundLocalError"]
    ELSE [f EXCEPT !.pc = "final",
                   !.out = [length |-> f.r - f.left,
                            records_out |-> DefaultGet(f.used_records, f.left),
                            records_in |-> f.records_in]]

\* Lines 428-440 from the top of the for loop, with record f.j next, up to
\* the next yield.
RECURSIVE DiffsLoop(_)
DiffsLoop(f) ==
    IF f.j > NumRecords
    THEN DiffsFinalYield(f)
    ELSE LET rec == Record(f.j)
             g == [f EXCEPT !.l = rec.left]
         IN IF g.l # g.left
            THEN [g EXCEPT !.pc = "loop", !.out = DiffsYield(g, g.l)]
            ELSE DiffsLoop([DiffsApplyRecord(g, rec) EXCEPT !.j = f.j + 1])

NoDiff == [length |-> 0, records_out |-> <<>>, records_in |-> <<>>]

\* Lines 424-427; r is not bound before the first record is read.
DiffsInit ==
    [pc |-> "start", j |-> 1, l |-> 0, r |-> 0, left |-> 0,
     used_records |-> EmptyDict, records_in |-> <<>>, out |-> NoDiff]

\* One call of next() on the generator.
_diffs(f) ==
    CASE f.pc = "start" -> DiffsLoop(f)
      [] f.pc = "loop" ->
            \* lines 435-437, then the record that was read before the yield
            LET g == [f EXCEPT !.used_records = DictDel(f.used_records, f.left),
                               !.records_in = <<>>,
                               !.left = f.l]
            IN DiffsLoop([DiffsApplyRecord(g, Record(f.j)) EXCEPT !.j = f.j + 1])
      [] f.pc = "final" -> [f EXCEPT !.pc = "StopIteration"]
      [] f.pc = "UnboundLocalError" -> [f EXCEPT !.pc = "StopIteration"]  \* a generator that raised is closed
      [] OTHER -> f

----------------------------------------------------------------------------
\* TreeSequence._diffs_with_breaks

\* b[k] of the source (0-based) is breakpoints[k + 1].
Breakpoint(k) == breakpoints[k + 1]

BreakpointInRange(k) == k >= 0 /\ k < Len(breakpoints)

\* Lines 448 and 451: the length of the breakpoint interval that ends at b[k].
BreakLength(k) == Breakpoint(k) - Breakpoint(k - 1)

\* Mutant of BreaksFor: the tuple keeps the length of the whole run.
BreaksForRunLength(f) ==
    LET inner == _diffs(f.inner)
    IN IF inner.pc = "StopIteration" THEN [f EXCEPT !.inner = inner, !.pc = "StopIteration"]
       ELSE IF inner.pc = "UnboundLocalError"
       THEN [f EXCEPT !.inner = inner, !.pc = "UnboundLocalError"]
       ELSE IF ~BreakpointInRange(f.k) THEN [f EXCEPT !.inner = inner, !.pc = "IndexError"]
       ELSE [f EXCEPT !.inner = inner,
                      !.x = f.x + inner.out.length,
                      !.pc = "outer",
                      !.out = inner.out]

\* Lines 446-448: pull the next tuple of _diffs and yield its deltas with the
\* length of the breakpoint interval.
BreaksFor(f) ==
    LET inner == _diffs(f.inner)
    IN IF inner.pc = "StopIteration" THEN [f EXCEPT !.inner = inner, !.pc = "StopIteration"]
       ELSE IF inner.pc = "UnboundLocalError"
       THEN [f EXCEPT !.inner = inner, !.pc = "UnboundLocalError"]
       ELSE IF ~BreakpointInRange(f.k) THEN [f EXCEPT !.inner = inner, !.pc = "IndexError"]
       ELSE [f EXCEPT !.inner = inner,
                      !.x = f.x + inner.out.length,
                      !.pc = "outer",
                      !.out = [length |-> BreakLength(f.k),
                               records_out |-> inner.out.records_out,
                               records_in |-> inner.out.records_in]]

\* Lines 449-452: the breakpoints inside the run get a tuple with no deltas.
BreaksWhile(f) ==
    IF ~BreakpointInRange(f.k) THEN [f EXCEPT !.pc = "IndexError"]
    ELSE IF Breakpoint(f.k) # f.x
    THEN IF ~BreakpointInRange(f.k + 1) THEN [f EXCEPT !.k = f.k + 1, !.pc = "IndexError"]
         ELSE [f EXCEPT !.k = f.k + 1, !.pc = "inner",
                        !.out = [length |-> BreakLength(f.k + 1),
                                 records_out |-> <<>>, records_in |-> <<>>]]
    ELSE BreaksFor([f EXCEPT !.k = f.k + 1])

\* Lines 443-445.
DiffsWithBreaksInit ==
    [pc |-> "start", k |-> 1, x |-> 0, inner |-> DiffsInit, out |-> NoDiff]

\* One call of next() on the generator.
_diffs_with_breaks(f) ==
    CASE f.pc = "start" -> BreaksFor(f)
      [] f.pc \in {"outer", "inner"} -> BreaksWhile(f)
      [] f.pc \in {"IndexError", "UnboundLocalError"} ->
            [f EXCEPT !.pc = "StopIteration"]  \* a generator that raised is closed
      [] OTHER -> f

\* Lines 454-458: the generator diffs(all_breaks) returns.
diffs(all_breaks) ==
    IF all_breaks THEN [kind |-> "_diffs_with_breaks", frame |-> DiffsWithBreaksInit]
    ELSE [kind |-> "_diffs", frame |-> DiffsInit]

\* next() on the generator diffs() returned.
DiffsGeneratorNext(g) ==
    IF g.kind = "_diffs_with_breaks" THEN [g EXCEPT !.frame = _diffs_with_breaks(g.frame)]
    ELSE [g EXCEPT !.frame = _diffs(g.frame)]

----------------------------------------------------------------------------
\* NewickGenerator

DigitChars == <<"0", "1", "2", "3", "4", "5", "6", "7", "8", "9">>

\* str(node): the decimal digits of a natural number.
RECURSIVE NatStr(_)
NatStr(m) ==
    IF m < 10 THEN <<DigitChars[m + 1]>>
    ELSE NatStr(m \div 10) \o <<DigitChars[(m % 10) + 1]>>

Zeros(k) == [i \in 1..k |-> "0"]

\* Line 503: "{0:.{1}f}".format(d, precision) of a whole number d.
FormatLength(d, precision) ==
    (IF d < 0 THEN <<"-">> ELSE <<>>)
    \o NatStr(IF d < 0 THEN -d ELSE d)
    \o (IF precision > 0 THEN <<".">> \o Zeros(precision) ELSE <<>>)

\* Lines 469-477.
NewickInit(precision, all_breaks) ==
    [pc |-> "created", diffs |-> diffs(all_breaks), precision |-> precision,
     children |-> EmptyDict, branch_length |-> EmptyDict,
     time |-> [j \in 1..sample_size |-> 0], parent |-> EmptyDict,
     subtree |-> EmptyDict, root |-> 0,
     out |-> [length |-> 0, ret |-> <<>>]]

\* del self.<field>[k]: a KeyError when k is not a key.
NewickDel(g, field, k) ==
    IF g.pc # "running" THEN g
    ELSE IF k \notin DOMAIN g[field] THEN [g EXCEPT !.pc = "KeyError"]
    ELSE [g EXCEPT ![field] = DictDel(@, k)]

\* Mutant of _propogate_subtree_loss: only the node itself loses its string.
PropogateNodeOnly(g, node) ==
    IF g.pc # "running" \/ node \notin DOMAIN g.subtree THEN g
    ELSE [g EXCEPT !.subtree = DictDel(@, node)]

\* Lines 516-525.
RECURSIVE _propogate_subtree_loss(_, _)
_propogate_subtree_loss(g, node) ==
    IF g.pc # "running" \/ node \notin DOMAIN g.subtree THEN g
    ELSE _propogate_subtree_loss(
             [g EXCEPT !.subtree = DictDel(@, node)],
             IF node \in DOMAIN g.parent THEN g.parent[node] ELSE node)

\* Mutant of NewickOutChildren: the parent entry is deleted before the loss
\* is propagated.
RECURSIVE NewickOutChildrenDelFirst(_, _, _)
NewickOutChildrenDelFirst(g, children, i) ==
    IF i > Len(children) THEN g
    ELSE LET j == children[i]
         IN NewickOutChildrenDelFirst(
                NewickDel(_propogate_subtree_loss(NewickDel(g, "parent", j), j),
                          "branch_length", j),
                children, i + 1)

\* Lines 490-493, for the children from the i-th on.
RECURSIVE NewickOutChildren(_, _, _)
NewickOutChildren(g, children, i) ==
    IF i > Len(children) THEN g
    ELSE LET j == children[i]
         IN NewickOutChildren(
                NewickDel(NewickDel(_propogate_subtree_loss(g, j), "parent", j),
                          "branch_length", j),
                children, i + 1)

\* Lines 487-493, for the records of records_out from the i-th on.
RECURSIVE NewickRecordsOut(_, _, _)
NewickRecordsOut(g, recs, i) ==
    IF i > Len(recs) THEN g
    ELSE LET parent == recs[i][2]
         IN NewickRecordsOut(
                NewickOutChildren(
                    NewickDel(NewickDel(g, "children", parent), "time", parent),
                    recs[i][1], 1),
                recs, i + 1)

\* Lines 496-498.
RECURSIVE NewickInChildren(_, _, _, _)
NewickInChildren(g, children, parent, i) ==
    IF i > Len(children) \/ g.pc # "running" THEN g
    ELSE LET j == children[i]
         IN NewickInChildren(
                _propogate_subtree_loss([g EXCEPT !.parent = DictSet(@, j, parent)], j),
                children, parent, i + 1)

\* Lines 494-499.
RECURSIVE NewickRecordsIn(_, _, _)
NewickRecordsIn(g, recs, i) ==
    IF i > Len(recs) \/ g.pc # "running" THEN g
    ELSE LET children == recs[i][1]
             parent == recs[i][2]
             g1 == [g EXCEPT !.children = DictSet(@, parent, children)]
             g2 == NewickInChildren(g1, children, parent, 1)
         IN NewickRecordsIn([g2 EXCEPT !.time = DictSet(@, parent, recs[i][3])],
                            recs, i + 1)

\* Lines 502-505.
RECURSIVE NewickBranchChildren(_, _, _, _)
NewickBranchChildren(g, children, time, i) ==
    IF i > Len(children) \/ g.pc # "running" THEN g
    ELSE LET j == children[i]
         IN IF j \notin DOMAIN g.time THEN [g EXCEPT !.pc = "KeyError"]
            ELSE NewickBranchChildren(
                     [g EXCEPT !.branch_length =
                          DictSet(@, j, FormatLength(time - g.time[j], g.precision))],
                     children, time, i + 1)

\* Lines 501-505.
RECURSIVE NewickBranchLengths(_, _, _)
NewickBranchLengths(g, recs, i) ==
    IF i > Len(recs) \/ g.pc # "running" THEN g
    ELSE NewickBranchLengths(NewickBranchChildren(g, recs[i][1], recs[i][3], 1),
                             recs, i + 1)

\* Lines 506-508.
RECURSIVE NewickRootFrom(_, _)
NewickRootFrom(g, v) ==
    IF v \in DOMAIN g.parent THEN NewickRootFrom(g, g.parent[v]) ELSE v

NewickFindRoot(g) ==
    IF g.pc # "running" THEN g ELSE [g EXCEPT !.root = NewickRootFrom(g, 1)]

\* Mutant of NewickAsserts: the three checks are left out.
NewickAssertsNone(g) == g

\* Lines 509-511.
NewickAsserts(g) ==
    IF g.pc # "running" THEN g
    ELSE IF /\ Cardinality(DOMAIN g.time) = 2 * sample_size - 1
            /\ Cardinality(DOMAIN g.parent) = 2 * sample_size - 2
            /\ Cardinality(DOMAIN g.branch_length) = 2 * sample_size - 2
         THEN g
         ELSE [g EXCEPT !.pc = "AssertionError"]

\* Lines 532-539: the nodes to rebuild, in the order the stack gives them.
RECURSIVE NewickCollect(_, _, _)
NewickCollect(g, stack, nodes) ==
    IF stack = <<>> THEN nodes
    ELSE LET node == stack[Len(stack)]
             rest == SubSeq(stack, 1, Len(stack) - 1)
         IN IF node \notin DOMAIN g.subtree
            THEN NewickCollect(g,
                               IF node \in DOMAIN g.children
                               THEN rest \o g.children[node] ELSE rest,
                               Append(nodes, node))
            ELSE NewickCollect(g, rest, nodes)

\* Mutant of NewickSeparator: the root is closed like any other node.
NewickSeparatorColon(g, node) == <<":">>

\* Lines 550-553 and 565: what follows the closing parenthesis.
NewickSeparator(g, node) == IF node # g.root THEN <<":">> ELSE <<";">>

\* Lines 552 and 567-568: the branch length after the separator.
NewickSuffix(g, node) == IF node # g.root THEN g.branch_length[node] ELSE <<>>

\* Mutant of NewickInternal: the first child's string is used twice.
NewickInternalFirstTwice(g, node) ==
    LET children == g.children[node]
        s1 == g.subtree[children[1]]
    IN <<"(">> \o s1 \o <<",">> \o s1 \o <<")">>
       \o NewickSeparator(g, node) \o NewickSuffix(g, node)

\* Lines 546-568: the string of an internal node.
NewickInternal(g, node) ==
    LET children == g.children[node]
        s1 == g.subtree[children[1]]
        s2 == g.subtree[children[2]]
    IN <<"(">> \o s1 \o <<",">> \o s2 \o <<")">>
       \o NewickSeparator(g, node) \o NewickSuffix(g, node)

\* Lines 570-574: the string of a leaf.
NewickLeaf(g, node) == NatStr(node) \o <<":">> \o g.branch_length[node]

\* Lines 545-575, for one node.
NewickBuild(g, node) ==
    IF g.pc # "running" THEN g
    ELSE IF node \in DOMAIN g.children
    THEN IF /\ Len(g.children[node]) >= 2
            /\ {g.children[node][1], g.children[node][2]} \subseteq DOMAIN g.subtree
            /\ (node # g.root => node \in DOMAIN g.branch_length)
         THEN [g EXCEPT !.subtree = DictSet(@, node, NewickInternal(g, node))]
         ELSE [g EXCEPT !.pc = "KeyError"]
    ELSE IF node \in DOMAIN g.branch_length
         THEN [g EXCEPT !.subtree = DictSet(@, node, NewickLeaf(g, node))]
         ELSE [g EXCEPT !.pc = "KeyError"]

\* Lines 544-575: the nodes in reverse order.
RECURSIVE NewickRebuild(_, _, _)
NewickRebuild(g, nodes, i) ==
    IF i = 0 THEN g ELSE NewickRebuild(NewickBuild(g, nodes[i]), nodes, i - 1)

\* Lines 527-575.
_update_subtrees(g) ==
    IF g.pc # "running" THEN g
    ELSE LET nodes == NewickCollect(g, <<g.root>>, <<>>)
         IN IF Len(nodes) > 2 * sample_size THEN [g EXCEPT !.pc = "IndexError"]
            ELSE NewickRebuild(g, nodes, Len(nodes))

\* Lines 485-514: one call of next().
next(g) ==
    LET d == DiffsGeneratorNext(g.diffs)
    IN IF ~Suspended(d.frame) THEN [g EXCEPT !.diffs = d, !.pc = d.frame.pc]
       ELSE LET t == d.frame.out
                g0 == [g EXCEPT !.diffs = d, !.pc = "running"]
                g1 == NewickRecordsOut(g0, t.records_out, 1)
                g2 == NewickRecordsIn(g1, t.records_in, 1)
                g3 == NewickBranchLengths(g2, t.records_in, 1)
                g4 == NewickAsserts(NewickFindRoot(g3))
                g5 == _update_subtrees(g4)
            IN IF g5.pc # "running" THEN g5
               ELSE [g5 EXCEPT !.pc = "returned",
                               !.out = [length |-> t.length, ret |-> g5.subtree[g5.root]]]

\* Line 460: the precisions the caller asks for (3 is the default).
Precisions == {0, 3}

----------------------------------------------------------------------------
\* HaplotypeGenerator

\* min and max of two numbers.
MinOf(a, b) == IF a < b THEN a ELSE b

MaxOf(a, b) == IF a > b THEN a ELSE b

\* Lines 598-601 and 649-652: an n x k matrix filled with "0".
ZeroMatrix(n, k) == [u \in 1..n |-> [c \in 1..k |-> "0"]]

\* The order in which a dict lists its keys is the order in which they were
\* inserted: a deleted key is taken out, a new key goes to the end and a key
\* that is set again keeps its place.  branch_length_keys holds that order
\* for self._branch_length, whose items line 629 enumerates.
KeysDel(keys, k) == SelectSeq(keys, LAMBDA x : x # k)

KeysSet(keys, k) == IF k \in SeqRange(keys) THEN keys ELSE Append(keys, k)

\* Lines 584-601: the object before _generate_haplotypes runs.
HaplotypeInit(scaled_mutation_rate) ==
    [pc |-> "created", diffs |-> diffs(FALSE),
     scaled_mutation_rate |-> scaled_mutation_rate,
     num_segregating_sites |-> 0, max_segregating_sites |-> num_loci,
     total_branch_length |-> 0, branch_length |-> EmptyDict, branch_length_keys |-> <<>>,
     children |-> EmptyDict,
     time |-> [j \in 1..sample_size |-> 0],
     haplotype |-> ZeroMatrix(sample_size, num_loci),
     branches |-> [j \in 1..(2 * sample_size - 2) |-> 0],
     probabilities |-> [j \in 1..(2 * sample_size - 2) |-> <<0, 1>>]]

\* del self.<field>[k]: a KeyError when k is not a key.
HapDel(g, field, k) ==
    IF g.pc # "running" THEN g
    ELSE IF k \notin DOMAIN g[field] THEN [g EXCEPT !.pc = "KeyError"]
    ELSE [g EXCEPT ![field] = DictDel(@, k)]

\* Mutant of HapOutChildren: the total is not reduced.
RECURSIVE HapOutChildrenKeepTotal(_, _, _)
HapOutChildrenKeepTotal(g, children, i) ==
    IF i > Len(children) \/ g.pc # "running" THEN g
    ELSE LET j == children[i]
         IN IF j \notin DOMAIN g.branch_length THEN [g EXCEPT !.pc = "KeyError"]
            ELSE HapOutChildrenKeepTotal(
                     [g EXCEPT !.branch_length = DictDel(@, j),
                               !.branch_length_keys = KeysDel(@, j)], children, i + 1)

\* Lines 611-613.
RECURSIVE HapOutChildren(_, _, _)
HapOutChildren(g, children, i) ==
    IF i > Len(children) \/ g.pc # "running" THEN g
    ELSE LET j == children[i]
         IN IF j \notin DOMAIN g.branch_length THEN [g EXCEPT !.pc = "KeyError"]
            ELSE HapOutChildren(
                     [g EXCEPT !.total_branch_length = @ - g.branch_length[j],
                               !.branch_length = DictDel(@, j),
                               !.branch_length_keys = KeysDel(@, j)],
                     children, i + 1)

\* Lines 608-613.
RECURSIVE HapRecordsOut(_, _, _)
HapRecordsOut(g, recs, i) ==
    IF i > Len(recs) THEN g
    ELSE LET parent == recs[i][2]
         IN HapRecordsOut(
                HapOutChildren(HapDel(HapDel(g, "children", parent), "time", parent),
                               recs[i][1], 1),
                recs, i + 1)

\* Lines 614-616.
RECURSIVE HapRecordsIn(_, _, _)
HapRecordsIn(g, recs, i) ==
    IF i > Len(recs) \/ g.pc # "running" THEN g
    ELSE HapRecordsIn([g EXCEPT !.children = DictSet(@, recs[i][2], recs[i][1]),
                                !.time = DictSet(@, recs[i][2], recs[i][3])],
                      recs, i + 1)

\* Lines 618-621.
RECURSIVE HapBranchChildren(_, _, _, _)
HapBranchChildren(g, children, time, i) ==
    IF i > Len(children) \/ g.pc # "running" THEN g
    ELSE LET j == children[i]
         IN IF j \notin DOMAIN g.time THEN [g EXCEPT !.pc = "KeyError"]
            ELSE HapBranchChildren(
                     [g EXCEPT !.branch_length = DictSet(@, j, time - g.time[j]),
                               !.branch_length_keys = KeysSet(@, j),
                               !.total_branch_length = @ + (time - g.time[j])],
                     children, time, i + 1)

\* Lines 617-621.
RECURSIVE HapBranchLengths(_, _, _)
HapBranchLengths(g, recs, i) ==
    IF i > Len(recs) \/ g.pc # "running" THEN g
    ELSE HapBranchLengths(HapBranchChildren(g, recs[i][1], recs[i][3], 1), recs, i + 1)

\* Mutant of MutationMean: the mutation rate is left out.
MutationMeanNoRate(g, length) == <<g.total_branch_length * length, num_loci>>

\* Lines 624-626: mu as a fraction <<numerator, denominator>>; the rate is a
\* whole number here.
MutationMean(g, length) ==
    <<g.total_branch_length * g.scaled_mutation_rate * length, num_loci>>

\* Line 627: what poisson(mu) can return; 0 for mu = 0, anything for mu > 0
\* (up to MaxMutations, and MaxSites in all), a ValueError for mu < 0.
PoissonDraws(g, mu) ==
    IF mu[1] = 0 THEN {0}
    ELSE 0..MinOf(MaxMutations, MaxSites - g.num_segregating_sites)

\* Mutant of HapFillCandidates: the last entry of the dict is not written.
RECURSIVE HapFillCandidatesButLast(_, _, _)
HapFillCandidatesButLast(g, nodes, j) ==
    IF Len(nodes) <= 1 \/ g.pc # "running" THEN g
    ELSE IF j > Len(g.branches) THEN [g EXCEPT !.pc = "IndexError"]
    ELSE HapFillCandidatesButLast(
             [g EXCEPT !.branches[j] = nodes[1],
                       !.probabilities[j] =
                           <<g.branch_length[nodes[1]], g.total_branch_length>>],
             Tail(nodes), j + 1)

\* Lines 629-631: the candidates, written over the arrays from the front.
\* nodes are the keys of the dict in the order the dict lists them.
RECURSIVE HapFillCandidates(_, _, _)
HapFillCandidates(g, nodes, j) ==
    IF nodes = <<>> \/ g.pc # "running" THEN g
    ELSE IF j > Len(g.branches) THEN [g EXCEPT !.pc = "IndexError"]
    ELSE HapFillCandidates(
             [g EXCEPT !.branches[j] = nodes[1],
                       !.probabilities[j] =
                           <<g.branch_length[nodes[1]], g.total_branch_length>>],
             Tail(nodes), j + 1)

\* The sum of the probabilities is 1: with w the product of the
\* denominators, the numerators scaled to w add up to w.
RECURSIVE ProductOfDenominators(_)
ProductOfDenominators(ps) ==
    IF ps = <<>> THEN 1 ELSE ps[1][2] * ProductOfDenominators(Tail(ps))

RECURSIVE ScaledNumerators(_, _)
ScaledNumerators(ps, w) ==
    IF ps = <<>> THEN 0 ELSE ps[1][1] * (w \div ps[1][2]) + ScaledNumerators(Tail(ps), w)

ProbabilitiesSumToOne(ps) ==
    /\ \A j \in 1..Len(ps) : ps[j][2] # 0 /\ ps[j][1] * ps[j][2] >= 0
    /\ ScaledNumerators(ps, ProductOfDenominators(ps)) = ProductOfDenominators(ps)

\* Lines 632-633: what choice(branches, num_mutations, p=probabilities) can
\* return: any list of candidates of positive probability.
MutationChoices(g, num_mutations) ==
    [1..num_mutations -> {g.branches[j] : j \in {j \in 1..Len(g.branches) :
                                                    g.probabilities[j][1] # 0}}]

\* Mutant of HapGrow: the capacity is doubled and no more.
HapGrowDoubleOnly(g, new_s) ==
    IF new_s >= g.max_segregating_sites
    THEN LET k == g.max_segregating_sites
             m == 2 * k
         IN [g EXCEPT !.max_segregating_sites = m,
                      !.haplotype = [u \in 1..sample_size |->
                                        [c \in 1..m |-> IF c <= k THEN g.haplotype[u][c]
                                                        ELSE "0"]]]
    ELSE g

\* Lines 643-653: grow the matrix when the new sites would fill it.
HapGrow(g, new_s) ==
    IF new_s >= g.max_segregating_sites
    THEN LET k == g.max_segregating_sites
             m == MaxOf(2 * k, new_s + 1)
         IN [g EXCEPT !.max_segregating_sites = m,
                      !.haplotype = [u \in 1..sample_size |->
                                        [c \in 1..m |-> IF c <= k THEN g.haplotype[u][c]
                                                        ELSE "0"]]]
    ELSE g

\* Lines 665-671: mark the leaves below the node in the current column
\* (column num_segregating_sites of the source is column
\* num_segregating_sites + 1 here).
RECURSIVE HapMarkLeaves(_, _)
HapMarkLeaves(g, stack) ==
    IF stack = <<>> \/ g.pc # "running" THEN g
    ELSE LET u == stack[Len(stack)]
             rest == SubSeq(stack, 1, Len(stack) - 1)
         IN IF u <= sample_size
            THEN IF g.num_segregating_sites >= g.max_segregating_sites
                 THEN [g EXCEPT !.pc = "IndexError"]
                 ELSE HapMarkLeaves(
                          [g EXCEPT !.haplotype[u][g.num_segregating_sites + 1] = "1"],
                          rest)
            ELSE IF u \notin DOMAIN g.children THEN [g EXCEPT !.pc = "KeyError"]
            ELSE HapMarkLeaves(g, rest \o g.children[u])

\* Mutant of HapNextSite: the column is not advanced.
HapSameSite(g) == g

\* Line 672.
HapNextSite(g) ==
    IF g.pc # "running" THEN g
    ELSE [g EXCEPT !.num_segregating_sites = @ + 1]

\* Mutant of _apply_rare_mutations: only the first branch gets its mutation.
ApplyRareMutationsFirstOnly(g, branches) ==
    IF branches = <<>> \/ g.pc # "running" THEN g
    ELSE HapNextSite(HapMarkLeaves(g, <<branches[1]>>))

\* Lines 659-672.
RECURSIVE _apply_rare_mutations(_, _)
_apply_rare_mutations(g, branches) ==
    IF branches = <<>> \/ g.pc # "running" THEN g
    ELSE _apply_rare_mutations(HapNextSite(HapMarkLeaves(g, <<branches[1]>>)),
                               Tail(branches))

\* Lines 636-656.
_apply_mutations(g, branches) ==
    _apply_rare_mutations(HapGrow(g, g.num_segregating_sites + Len(branches)), branches)

\* Lines 608-621: the deltas of one interval applied.
HapApplyDiff(g, t) ==
    HapBranchLengths(HapRecordsIn(HapRecordsOut(g, t.records_out, 1), t.records_in, 1),
                     t.records_in, 1)

\* Lines 628-634, for the number of mutations and the branches drawn.
HapMutate(g, num_mutations, mutation_branches) ==
    IF num_mutations > 0
    THEN LET c == HapFillCandidates(g, g.branch_length_keys, 1)
         IN IF c.pc # "running" THEN c
            ELSE IF ~ProbabilitiesSumToOne(c.probabilities)
            THEN [c EXCEPT !.pc = "ValueError"]
            ELSE _apply_mutations(c, mutation_branches)
    ELSE g

\* Lines 622-634: the draws the random generator can hand to one round of
\* the loop, as pairs of the number of mutations and the branches chosen.
\* g is the generator after the deltas of the interval were applied.
HapDraws(g, length) ==
    IF g.pc # "running" \/ MutationMean(g, length)[1] < 0 THEN {<<0, <<>>>>}
    ELSE UNION {{<<num_mutations, mutation_branches>> :
                    mutation_branches \in
                        MutationChoices(
                            HapFillCandidates(g, g.branch_length_keys, 1),
                            num_mutations)} :
                num_mutations \in PoissonDraws(g, MutationMean(g, length))}

\* Lines 607-634: one round of the loop of _generate_haplotypes, which
\* __init__ runs to its end: d is the generator of diffs after next().
_generate_haplotypes(g, d, num_mutations, mutation_branches) ==
    IF ~Suspended(d.frame)
    THEN [g EXCEPT !.diffs = d,
                   !.pc = IF d.frame.pc = "StopIteration" THEN "done" ELSE d.frame.pc]
    ELSE LET g1 == HapApplyDiff([g EXCEPT !.diffs = d, !.pc = "running"], d.frame.out)
         IN IF g1.pc # "running" THEN g1
            ELSE IF MutationMean(g1, d.frame.out.length)[1] < 0
            THEN [g1 EXCEPT !.pc = "ValueError"]
            ELSE HapMutate(g1, num_mutations, mutation_branches)

\* Lines 677-679.
haplotypes(g) ==
    [u \in 1..sample_size |-> SubSeq(g.haplotype[u], 1, g.num_segregating_sites)]

\* Line 583: random_seed=None, no seed passed.
NoSeed == -1

\* The seeds a caller can pass, random.randint can return and the operating
\* system can hand to RandomState(None).
Seeds == 0..MaxSeed

\* Lines 584-587: the seed the engine records and the generator it draws
\* from.  randint is what random.randint returns; RandomState is seeded with
\* the argument random_seed, and RandomState(None) takes its seed from the
\* operating system (entropy).
HaplotypeSeed(random_seed, randint, entropy) ==
    [_random_seed |-> IF random_seed = NoSeed THEN randint ELSE random_seed,
     _rng |-> [seed |-> IF random_seed = NoSeed THEN entropy ELSE random_seed,
               calls |-> 0]]

\* Lines 604-634 run to their end, as __init__ runs them (line 602): every
\* run the draws of self._rng can give, each with the number of calls made
\* on self._rng by then: poisson once in every round (line 627) and choice
\* once in every round with a mutation (line 632).
RECURSIVE HaplotypeRuns(_)
HaplotypeRuns(r) ==
    IF r.generator.pc \notin {"created", "running"} THEN {r}
    ELSE LET g == r.generator
             d == DiffsGeneratorNext(g.diffs)
             g1 == HapApplyDiff([g EXCEPT !.diffs = d, !.pc = "running"], d.frame.out)
         IN IF ~Suspended(d.frame) \/ g1.pc # "running"
            THEN HaplotypeRuns([r EXCEPT !.generator = _generate_haplotypes(g, d, 0, <<>>)])
            ELSE UNION {HaplotypeRuns(
                            [generator |-> _generate_haplotypes(g, d, draw[1], draw[2]),
                             calls |-> r.calls + 1 + (IF draw[1] > 0 THEN 1 ELSE 0)]) :
                        draw \in HapDraws(g1, d.frame.out.length)}

NoEngine == [built |-> FALSE]

NoEngines == [e \in 1..2 |-> NoEngine]

\* Lines 583-602: HaplotypeGenerator(tree_sequence, scaled_mutation_rate,
\* random_seed), for the run the draws of its generator gave.  _rng is the
\* generator as __init__ leaves it: the seed it was created from and the
\* calls made on it.
HaplotypeGenerator(scaled_mutation_rate, random_seed, randint, entropy, run) ==
    LET seeded == HaplotypeSeed(random_seed, randint, entropy)
    IN [built |-> TRUE,
        scaled_mutation_rate |-> scaled_mutation_rate,
        _random_seed |-> seeded._random_seed,
        _rng |-> [seeded._rng EXCEPT !.calls = run.calls],
        generator |-> run.generator]

\* The scaled mutation rates the caller asks for.
MutationRates == {0, 1}

----------------------------------------------------------------------------
\* The state after TreeSimulator.run has built the TreeSequence, and the
\* caller has created the generators of the traversal it runs.

Consumers == {"trees", "diffs", "newick"}

Init ==
    /\ sample_size \in 2..MaxSampleSize
    /\ num_loci = NumLoci
    /\ \E f \in TreeMaps(sample_size), cuts \in SUBSET (1..(NumLoci - 1)), desc \in BOOLEAN :
           records = SortedRecords(CoalescenceRecords(sample_size, f, cuts), desc)
    /\ breakpoints \in BreakpointLists(records)
    /\ supplied = Arrays(records)
    /\ ts = TreeSequenceInit("arrays", supplied, TRUE, IdentityPerm(Len(records)))
    /\ file = NoFile
    /\ consumer \in Consumers
    /\ turn = IF consumer = "trees" THEN "sparse_trees" ELSE consumer
    /\ st = SparseInit
    /\ \E all_breaks \in BOOLEAN :
           /\ consumer = "trees" => ~all_breaks
           /\ df = diffs(all_breaks)
           /\ \E precision \in Precisions :
                  /\ consumer # "newick" => precision = 3
                  /\ ng = NewickInit(precision, all_breaks)
    /\ hg = HaplotypeInit(0)
    /\ engines = NoEngines
    /\ mutation_log = <<>>
    /\ trees_out = <<>>
    /\ diffs_out = <<>>
    /\ newick_out = <<>>

\* The caller pulls the next tree from sparse_trees().
SparseTreesNext ==
    /\ consumer = "trees"
    /\ turn = "sparse_trees"
    /\ ~Finished(st)
    /\ st' = sparse_trees(st)
    /\ trees_out' = IF Suspended(st') THEN Append(trees_out, SparseYielded(st')) ELSE trees_out
    /\ turn' = "diffs"
    /\ UNCHANGED <<engines, sample_size, num_loci, breakpoints, records, consumer, supplied, ts, file, df, ng, hg,
                   mutation_log, diffs_out, newick_out>>

\* The caller pulls the next tuple from diffs(all_breaks).
DiffsNext ==
    /\ consumer \in {"trees", "diffs"}
    /\ turn = "diffs"
    /\ ~Finished(df.frame)
    /\ df' = DiffsGeneratorNext(df)
    /\ diffs_out' = IF Suspended(df'.frame) THEN Append(diffs_out, df'.frame.out)
                    ELSE diffs_out
    /\ turn' = IF consumer = "trees" THEN "sparse_trees" ELSE "diffs"
    /\ UNCHANGED <<engines, sample_size, num_loci, breakpoints, records, consumer, supplied, ts, file, st, ng, hg,
                   mutation_log, trees_out, newick_out>>

\* The caller pulls the next string from newick_trees().
NewickNext ==
    /\ consumer = "newick"
    /\ ng.pc # "StopIteration"
    /\ ng' = next(ng)
    /\ newick_out' = IF ng'.pc = "returned" THEN Append(newick_out, ng'.out) ELSE newick_out
    /\ UNCHANGED <<engines, sample_size, num_loci, breakpoints, records, consumer, supplied, ts, file, turn, st, df,
                   hg, mutation_log, trees_out, diffs_out>>

Next == SparseTreesNext \/ DiffsNext \/ NewickNext

Spec == Init /\ [][Next]_vars

----------------------------------------------------------------------------
\* The specification of the HaplotypeGenerator: the state after a
\* TreeSequence has been built and HaplotypeGenerator.__init__ is about to
\* run _generate_haplotypes over it.

\* The number of loci at which the tree differs from the tree before.
TreeChanges(f) == Cardinality({x \in 1..(NumLoci - 1) : f[x] # f[x - 1]})

InitHaplotypes ==
    /\ sample_size \in 2..MaxSampleSize
    /\ num_loci = NumLoci
    /\ \E f \in TreeMaps(sample_size), cuts \in {{}, 1..(NumLoci - 1)} :
           /\ TreeChanges(f) <= MaxTreeChanges
           /\ records = SortedRecords(CoalescenceRecords(sample_size, f, cuts), FALSE)
    /\ breakpoints = SortedSeq(0..NumLoci)
    /\ supplied = Arrays(records)
    /\ ts = TreeSequenceInit("arrays", supplied, TRUE, IdentityPerm(Len(records)))
    /\ file = NoFile
    /\ consumer = "haplotypes"
    /\ turn = "haplotypes"
    /\ st = SparseInit
    /\ df = diffs(FALSE)
    /\ ng = NewickInit(3, FALSE)
    /\ \E scaled_mutation_rate \in MutationRates : hg = HaplotypeInit(scaled_mutation_rate)
    /\ engines = NoEngines
    /\ mutation_log = <<>>
    /\ trees_out = <<>>
    /\ diffs_out = <<>>
    /\ newick_out = <<>>

\* One round of the loop of _generate_haplotypes.  diffs_out keeps the diffs
\* the loop has read and mutation_log the mutations it has placed: the node
\* below the branch and the locus at which the interval of the diff starts.
GenerateHaplotypes ==
    /\ consumer = "haplotypes"
    /\ hg.pc \in {"created", "running"}
    /\ LET d == DiffsGeneratorNext(hg.diffs)
           g1 == HapApplyDiff([hg EXCEPT !.diffs = d, !.pc = "running"], d.frame.out)
       IN IF ~Suspended(d.frame)
          THEN /\ hg' = _generate_haplotypes(hg, d, 0, <<>>)
               /\ UNCHANGED <<mutation_log, diffs_out>>
          ELSE \E draw \in HapDraws(g1, d.frame.out.length) :
                   /\ hg' = _generate_haplotypes(hg, d, draw[1], draw[2])
                   /\ diffs_out' = Append(diffs_out, d.frame.out)
                   /\ mutation_log' =
                          IF hg'.pc = "running"
                          THEN mutation_log \o
                                   [i \in 1..draw[1] |->
                                       [node |-> draw[2][i],
                                        locus |-> SumSeq([k \in 1..Len(diffs_out) |->
                                                             diffs_out[k].length])]]
                          ELSE mutation_log
    /\ UNCHANGED <<engines, sample_size, num_loci, breakpoints, records, consumer, supplied, ts, file, turn, st, df,
                   ng, trees_out, newick_out>>

NextHaplotypes == GenerateHaplotypes

SpecHaplotypes == InitHaplotypes /\ [][NextHaplotypes]_vars

----------------------------------------------------------------------------
\* The specification of the record store: a caller builds a TreeSequence
\* from arrays in any order, with or without sort_records, iterates
\* records(), dumps it and loads it again.

InitStore ==
    /\ sample_size \in 2..MaxSampleSize
    /\ num_loci = NumLoci
    /\ \E f \in TreeMaps(sample_size) :
           /\ TreeChanges(f) <= MaxTreeChanges
           /\ \E recs \in Orderings(CoalescenceRecords(sample_size, f, {})) :
                  supplied = Arrays(recs)
    /\ breakpoints = SortedSeq(0..NumLoci)
    /\ records = <<>>
    /\ ts = NoTreeSequence
    /\ file = NoFile
    /\ consumer = "records"
    /\ turn = "records"
    /\ st = SparseInit
    /\ df = diffs(FALSE)
    /\ ng = NewickInit(3, FALSE)
    /\ hg = HaplotypeInit(0)
    /\ engines = NoEngines
    /\ mutation_log = <<>>
    /\ trees_out = <<>>
    /\ diffs_out = <<>>
    /\ newick_out = <<>>

\* TreeSequence(breakpoints, left, right, children, parent, time, ...,
\* sort_records): TreeSimulator.run passes sort_records=True, the default is False.
Construct ==
    /\ consumer = "records"
    /\ ts = NoTreeSequence
    /\ \E sort_records \in BOOLEAN, p \in argsort(supplied.left) :
           ts' = TreeSequenceInit("arrays", supplied, sort_records, p)
    /\ UNCHANGED <<engines, sample_size, num_loci, breakpoints, records, consumer, turn, supplied,
                   file, st, df, ng, hg, mutation_log, trees_out, diffs_out, newick_out>>

\* list(ts.records())
IterateRecords ==
    /\ consumer = "records"
    /\ ts # NoTreeSequence
    /\ records # TreeSequenceRecords(ts)
    /\ records' = TreeSequenceRecords(ts)
    /\ UNCHANGED <<engines, sample_size, num_loci, breakpoints, consumer, turn, supplied, ts,
                   file, st, df, ng, hg, mutation_log, trees_out, diffs_out, newick_out>>

\* ts.dump(path)
Dump ==
    /\ consumer = "records"
    /\ ts # NoTreeSequence
    /\ file = NoFile
    /\ file' = dump(ts)
    /\ UNCHANGED <<engines, sample_size, num_loci, breakpoints, records, consumer, turn, supplied,
                   ts, st, df, ng, hg, mutation_log, trees_out, diffs_out, newick_out>>

\* ts = TreeSequence.load(path)
Load ==
    /\ consumer = "records"
    /\ file # NoFile
    /\ ts.origin # "load"
    /\ ts' = load(file)
    /\ UNCHANGED <<engines, sample_size, num_loci, breakpoints, records, consumer, turn, supplied,
                   file, st, df, ng, hg, mutation_log, trees_out, diffs_out, newick_out>>

NextStore == Construct \/ IterateRecords \/ Dump \/ Load

SpecStore == InitStore /\ [][NextStore]_vars

----------------------------------------------------------------------------
\* The specification of the traversals over record lists that need not be
\* well formed: a list of the simulator as it is, with one record left out,
\* or with the right of one record moved.

DropRecord(recs, i) == SubSeq(recs, 1, i - 1) \o SubSeq(recs, i + 1, Len(recs))

SetRight(recs, i, y) == [recs EXCEPT ![i].right = y]

DamagedLists(recs) ==
    {recs}
    \cup {DropRecord(recs, i) : i \in {i \in 1..Len(recs) : Len(recs) > 1}}
    \cup UNION {{SetRight(recs, i, y) : y \in (recs[i].left + 1)..NumLoci} : i \in 1..Len(recs)}

InitMalformed ==
    /\ sample_size \in 2..MaxSampleSize
    /\ num_loci = NumLoci
    /\ \E f \in TreeMaps(sample_size), cuts \in {{}, 1..(NumLoci - 1)} :
           /\ TreeChanges(f) <= MaxTreeChanges
           /\ records \in DamagedLists(
                  SortedRecords(CoalescenceRecords(sample_size, f, cuts), FALSE))
    /\ breakpoints \in BreakpointLists(records)
    /\ supplied = Arrays(records)
    /\ ts = TreeSequenceInit("arrays", supplied, TRUE, IdentityPerm(Len(records)))
    /\ file = NoFile
    /\ consumer \in {"diffs", "newick"}
    /\ turn = consumer
    /\ st = SparseInit
    /\ \E all_breaks \in BOOLEAN :
           /\ df = diffs(all_breaks)
           /\ ng = NewickInit(3, all_breaks)
    /\ hg = HaplotypeInit(0)
    /\ engines = NoEngines
    /\ mutation_log = <<>>
    /\ trees_out = <<>>
    /\ diffs_out = <<>>
    /\ newick_out = <<>>

NextMalformed == DiffsNext \/ NewickNext

SpecMalformed == InitMalformed /\ [][NextMalformed]_vars

----------------------------------------------------------------------------
\* The specification of the seeds: two HaplotypeGenerators are built over
\* the same TreeSequence, the first with a seed passed or with none, the
\* second to reproduce the first: with the same mutation rate and the seed
\* the first has recorded.  The tree sequence has one tree, its records cut
\* at locus 1 or not at all.

InitSeeds ==
    /\ sample_size \in 2..MaxSampleSize
    /\ num_loci = NumLoci
    /\ \E f \in TreeMaps(sample_size), cuts \in {{}, {1}} :
           /\ TreeChanges(f) = 0
           /\ records = SortedRecords(CoalescenceRecords(sample_size, f, cuts), FALSE)
    /\ breakpoints = SortedSeq(0..NumLoci)
    /\ supplied = Arrays(records)
    /\ ts = TreeSequenceInit("arrays", supplied, TRUE, IdentityPerm(Len(records)))
    /\ file = NoFile
    /\ consumer = "engines"
    /\ turn = "engines"
    /\ st = SparseInit
    /\ df = diffs(FALSE)
    /\ ng = NewickInit(3, FALSE)
    /\ hg = HaplotypeInit(0)
    /\ engines = NoEngines
    /\ mutation_log = <<>>
    /\ trees_out = <<>>
    /\ diffs_out = <<>>
    /\ newick_out = <<>>

\* np.random.RandomState is deterministic: two generators created from the
\* same seed give the same draws to the same calls, so an engine created
\* from the seed of another, with the same mutation rate over the same tree
\* sequence, has the run of the other.  Nothing else is known of the draws.
SameStream(seeded, scaled_mutation_rate, run) ==
    \A o \in 1..2 :
        (/\ engines[o].built
         /\ engines[o]._rng.seed = seeded._rng.seed
         /\ engines[o].scaled_mutation_rate = scaled_mutation_rate)
        => /\ run.generator = engines[o].generator
           /\ run.calls = engines[o]._rng.calls

\* Lines 585-587: random.randint and the entropy of the system are drawn
\* from only when no seed is passed.
SeedsDrawn(random_seed) == IF random_seed = NoSeed THEN Seeds ELSE {0}

\* HaplotypeGenerator(ts, scaled_mutation_rate, random_seed): the first
\* engine, then the second.
NewEngine ==
    /\ consumer = "engines"
    /\ \E e \in 1..2 :
           /\ engines[e] = NoEngine
           /\ e = 2 => engines[1] # NoEngine
           /\ \E scaled_mutation_rate \in MutationRates, random_seed \in {NoSeed} \cup Seeds :
              \E randint \in SeedsDrawn(random_seed), entropy \in SeedsDrawn(random_seed) :
                  /\ e = 2 => /\ scaled_mutation_rate = engines[1].scaled_mutation_rate
                              /\ random_seed = engines[1]._random_seed
                  /\ \E run \in HaplotypeRuns([generator |-> HaplotypeInit(scaled_mutation_rate),
                                                calls |-> 0]) :
                         /\ SameStream(HaplotypeSeed(random_seed, randint, entropy),
                                       scaled_mutation_rate, run)
                         /\ engines' = [engines EXCEPT ![e] =
                                            HaplotypeGenerator(scaled_mutation_rate,
                                                               random_seed, randint,
                                                               entropy, run)]
    /\ UNCHANGED <<sample_size, num_loci, breakpoints, records, consumer, turn, supplied,
                   ts, file, st, df, ng, hg, mutation_log, trees_out, diffs_out,
                   newick_out>>

NextSeeds == NewEngine

SpecSeeds == InitSeeds /\ [][NextSeeds]_vars

----------------------------------------------------------------------------
\* The specification of the growing matrix: the HaplotypeGenerator over
\* tree sequences of one locus and more, so that the matrix starts with one
\* column and more.

\* The records of a simulation that stops at locus l.
TruncatedRecords(S, l) ==
    {[r EXCEPT !.right = MinOf(r.right, l)] : r \in {r \in S : r.left < l}}

InitGrowth ==
    /\ sample_size \in 2..MaxSampleSize
    /\ num_loci \in 1..NumLoci
    /\ \E f \in TreeMaps(sample_size) :
           /\ TreeChanges(f) <= MaxTreeChanges
           /\ records = SortedRecords(
                            TruncatedRecords(CoalescenceRecords(sample_size, f, {}), num_loci),
                            FALSE)
    /\ breakpoints = SortedSeq(0..num_loci)
    /\ supplied = Arrays(records)
    /\ ts = TreeSequenceInit("arrays", supplied, TRUE, IdentityPerm(Len(records)))
    /\ file = NoFile
    /\ consumer = "haplotypes"
    /\ turn = "haplotypes"
    /\ st = SparseInit
    /\ df = diffs(FALSE)
    /\ ng = NewickInit(3, FALSE)
    /\ \E scaled_mutation_rate \in MutationRates : hg = HaplotypeInit(scaled_mutation_rate)
    /\ engines = NoEngines
    /\ mutation_log = <<>>
    /\ trees_out = <<>>
    /\ diffs_out = <<>>
    /\ newick_out = <<>>

NextGrowth == GenerateHaplotypes

SpecGrowth == InitGrowth /\ [][NextGrowth]_vars

----------------------------------------------------------------------------
\* The specification of the ties: the records of a valid simulation listed
\* in every order that is ascending in left, read by sparse_trees() (with
\* diffs() beside it) or by the NewickGenerator.

\* Every listing of a set of records in ascending order of left: the records
\* with the same left in any order among themselves.
RECURSIVE TieOrderings(_)
TieOrderings(S) ==
    IF S = {} THEN {<<>>}
    ELSE UNION {{<<a>> \o rest : rest \in TieOrderings(S \ {a})} :
                a \in {a \in S : \A b \in S : a.left <= b.left}}

InitTies ==
    /\ sample_size \in 2..MaxSampleSize
    /\ num_loci = NumLoci
    /\ \E f \in TreeMaps(sample_size), cuts \in {{}, 1..(NumLoci - 1)} :
           records \in TieOrderings(CoalescenceRecords(sample_size, f, cuts))
    /\ breakpoints \in BreakpointLists(records)
    /\ supplied = Arrays(records)
    /\ ts = TreeSequenceInit("arrays", supplied, TRUE, IdentityPerm(Len(records)))
    /\ file = NoFile
    /\ consumer \in {"trees", "newick"}
    /\ turn = IF consumer = "trees" THEN "sparse_trees" ELSE consumer
    /\ st = SparseInit
    /\ \E all_breaks \in BOOLEAN :
           /\ consumer = "trees" => ~all_breaks
           /\ df = diffs(all_breaks)
           /\ ng = NewickInit(3, all_breaks)
    /\ hg = HaplotypeInit(0)
    /\ engines = NoEngines
    /\ mutation_log = <<>>
    /\ trees_out = <<>>
    /\ diffs_out = <<>>
    /\ newick_out = <<>>

NextTies == SparseTreesNext \/ DiffsNext \/ NewickNext

SpecTies == InitTies /\ [][NextTies]_vars

----------------------------------------------------------------------------
\* What the records say, read without any traversal.

\* The distinct left values in ascending order: interval k starts at the
\* k-th of them and ends at the next one, the last at num_loci.
IntervalLefts == SortedSeq(Lefts(records))

IntervalLeft(k) == IntervalLefts[k]

IntervalRight(k) == IF k < Len(IntervalLefts) THEN IntervalLefts[k + 1] ELSE num_loci

RecordsAt(a) ==
    {records[i] : i \in {i \in 1..Len(records) : records[i].left <= a /\ a < records[i].right}}

ParentPairsAt(a) ==
    UNION {{<<rec.children[1], rec.parent>>, <<rec.children[2], rec.parent>>} :
           rec \in RecordsAt(a)}

TimePairsAt(a) ==
    {<<v, 0>> : v \in 1..sample_size} \cup {<<rec.parent, rec.time>> : rec \in RecordsAt(a)}

DictPairs(d) == {<<k, d[k]>> : k \in DOMAIN d}

Lengths(out) == [k \in 1..Len(out) |-> out[k].length]

\* The locus at which the k-th item of a stream starts.
StartOf(out, k) == SumSeq(SubSeq(Lengths(out), 1, k - 1))

----------------------------------------------------------------------------
\* C1: over a complete traversal of a valid fully-coalesced input the lengths
\* emitted by sparse_trees(), by diffs(), by diffs(all_breaks=True) and by
\* newick_trees() sum to num_loci, and no traversal ends in an error.
C1_LengthsSumToNumLoci ==
    /\ Finished(st) => st.pc = "StopIteration" /\ SumSeq(Lengths(trees_out)) = num_loci
    /\ Finished(df.frame) =>
           df.frame.pc = "StopIteration" /\ SumSeq(Lengths(diffs_out)) = num_loci
    /\ Finished(ng) => ng.pc = "StopIteration" /\ SumSeq(Lengths(newick_out)) = num_loci

\* sparse_trees() and diffs() both ran to their end over more than one interval.
C1_Witness ==
    /\ consumer = "trees"
    /\ st.pc = "StopIteration"
    /\ df.frame.pc = "StopIteration"
    /\ Len(trees_out) >= 2
    /\ Len(diffs_out) >= 2

\* C2: the k-th tree sparse_trees() yields covers [a, b), a and b consecutive
\* distinct lefts (b = num_loci for the last): when it is yielded parent_map is
\* exactly the child -> parent edges of the records with left <= a < right,
\* time_map exactly the leaves at 0 and parent -> time of those records, and
\* the length is b - a.
C2_SparseTreeIsTreeOfInterval ==
    /\ Len(trees_out) <= Len(IntervalLefts)
    /\ \A k \in 1..Len(trees_out) :
           /\ DictPairs(trees_out[k].pi_at_yield) = ParentPairsAt(IntervalLeft(k))
           /\ DictPairs(trees_out[k].tau_at_yield) = TimePairsAt(IntervalLeft(k))
           /\ trees_out[k].length = IntervalRight(k) - IntervalLeft(k)
    /\ Suspended(st) =>
           /\ DictPairs(st.pi) = ParentPairsAt(IntervalLeft(Len(trees_out)))
           /\ DictPairs(st.tau) = TimePairsAt(IntervalLeft(Len(trees_out)))

\* A later tree was yielded at a left where two records expired at once.
C2_Witness ==
    /\ Suspended(st)
    /\ Len(trees_out) >= 2
    /\ Cardinality({i \in 1..Len(records) :
                        records[i].right = IntervalLeft(Len(trees_out))}) >= 2

\* C3 (as claimed): a map yielded by sparse_trees() is an independent
\* snapshot: whatever the traversal does afterwards, the maps the caller
\* holds still contain what they contained when they were yielded.
C3_YieldedMapsAreSnapshots ==
    \A k \in 1..Len(trees_out) :
        /\ Deref(trees_out[k].pi) = trees_out[k].pi_at_yield
        /\ Deref(trees_out[k].tau) = trees_out[k].tau_at_yield

\* The edges after the first k tuples of diffs() have been replayed.
RECURSIVE ReplayDiffs(_)
ReplayDiffs(k) ==
    IF k = 0 THEN {}
    ELSE (ReplayDiffs(k - 1) \ SeqRange(diffs_out[k].records_out))
             \cup SeqRange(diffs_out[k].records_in)

EdgeParentPairs(E) == UNION {{<<e[1][1], e[2]>>, <<e[1][2], e[2]>>} : e \in E}

\* C4: replaying diffs() gives, at every interval, the edges of the
\* parent_map sparse_trees() yields for it; the two streams have the same
\* lengths and end together.
C4_DiffsReplayMatchesSparseTrees ==
    consumer = "trees" =>
        /\ \A k \in 1..MinOf(Len(trees_out), Len(diffs_out)) :
               /\ EdgeParentPairs(ReplayDiffs(k)) = DictPairs(trees_out[k].pi_at_yield)
               /\ diffs_out[k].length = trees_out[k].length
        /\ turn = "sparse_trees" =>
               /\ Len(trees_out) = Len(diffs_out)
               /\ (st.pc = "StopIteration") = (df.frame.pc = "StopIteration")

\* Both streams are at their third interval, and an edge retired there was
\* introduced two intervals before.
C4_Witness ==
    /\ consumer = "trees"
    /\ turn = "sparse_trees"
    /\ Len(diffs_out) = 3
    /\ \E e \in SeqRange(diffs_out[3].records_out) : e \in SeqRange(diffs_out[1].records_in)

\* C5: every tree yielded by sparse_trees() has 2n - 1 entries in time_map
\* and 2n - 2 in parent_map when it is yielded.
C5_SparseTreeSizes ==
    /\ \A k \in 1..Len(trees_out) :
           /\ Cardinality(DOMAIN trees_out[k].tau_at_yield) = 2 * sample_size - 1
           /\ Cardinality(DOMAIN trees_out[k].pi_at_yield) = 2 * sample_size - 2
    /\ Suspended(st) =>
           /\ Cardinality(DOMAIN st.tau) = 2 * sample_size - 1
           /\ Cardinality(DOMAIN st.pi) = 2 * sample_size - 2

\* A tree was yielded after nodes were retired and others introduced.
C5_Witness ==
    /\ Suspended(st)
    /\ Len(trees_out) >= 2
    /\ sample_size = 3
    /\ DOMAIN trees_out[1].tau_at_yield # DOMAIN st.tau

----------------------------------------------------------------------------
\* The tree of a locus, read from the records.

ChildrenAt(a) ==
    [p \in {rec.parent : rec \in RecordsAt(a)} |->
        (CHOOSE rec \in RecordsAt(a) : rec.parent = p).children]

RootAt(a) ==
    CHOOSE p \in DOMAIN ChildrenAt(a) :
        \A q \in DOMAIN ChildrenAt(a) : p \notin SeqRange(ChildrenAt(a)[q])

ParentAt(a, v) == CHOOSE p \in DOMAIN ChildrenAt(a) : v \in SeqRange(ChildrenAt(a)[p])

TimeAt(a, v) ==
    IF v <= sample_size THEN 0 ELSE (CHOOSE rec \in RecordsAt(a) : rec.parent = v).time

\* The number of edges from v down to its deepest leaf.
RECURSIVE HeightAt(_, _)
HeightAt(a, v) ==
    IF v \in DOMAIN ChildrenAt(a)
    THEN 1 + MaxOf(HeightAt(a, ChildrenAt(a)[v][1]), HeightAt(a, ChildrenAt(a)[v][2]))
    ELSE 0

\* The Newick text of the subtree below v: a root is "(left,right);", any
\* other internal node "(left,right):length" and a leaf "label:length", the
\* length being time[parent] - time[node] to the given precision.
RECURSIVE NewickAt(_, _, _)
NewickAt(a, v, precision) ==
    LET length == FormatLength(TimeAt(a, ParentAt(a, v)) - TimeAt(a, v), precision)
    IN IF v \in DOMAIN ChildrenAt(a)
       THEN <<"(">> \o NewickAt(a, ChildrenAt(a)[v][1], precision) \o <<",">>
                \o NewickAt(a, ChildrenAt(a)[v][2], precision) \o <<")">>
                \o (IF v = RootAt(a) THEN <<";">> ELSE <<":">> \o length)
       ELSE NatStr(v) \o <<":">> \o length

\* Reading a Newick string back.
IsDigit(c) == c \in SeqRange(DigitChars)

DigitValue(c) == CHOOSE d \in 0..9 : DigitChars[d + 1] = c

RECURSIVE ParseNat(_, _, _)
ParseNat(s, i, acc) ==
    IF i <= Len(s) /\ IsDigit(s[i]) THEN ParseNat(s, i + 1, acc * 10 + DigitValue(s[i]))
    ELSE acc

\* A leaf label starts right after an opening parenthesis or a comma.
LabelStarts(s) == {i \in 2..Len(s) : IsDigit(s[i]) /\ s[i - 1] \in {"(", ","}}

LabelAt(s, i) == ParseNat(s, i, 0)

DepthAt(s, i) ==
    Cardinality({j \in 1..i : s[j] = "("}) - Cardinality({j \in 1..i : s[j] = ")"})

MaxDepth(s) == CHOOSE d \in 0..Len(s) :
                   /\ \A i \in 1..Len(s) : DepthAt(s, i) <= d
                   /\ (d > 0 => \E i \in 1..Len(s) : DepthAt(s, i) = d)

\* C6: every string NewickGenerator.next() returns holds each leaf label
\* 1..sample_size exactly once and no other, and its deepest parenthesis
\* nesting is the height of the tree of its interval.
C6_NewickLeavesAndDepth ==
    \A k \in 1..Len(newick_out) :
        LET s == newick_out[k].ret
            a == StartOf(newick_out, k)
        IN /\ \A v \in 1..sample_size :
                  Cardinality({i \in LabelStarts(s) : LabelAt(s, i) = v}) = 1
           /\ \A i \in LabelStarts(s) : LabelAt(s, i) \in 1..sample_size
           /\ MaxDepth(s) = HeightAt(a, RootAt(a))

\* A string of a tree of height 2 was returned after the tree had changed.
C6_Witness ==
    /\ ng.pc = "returned"
    /\ Len(newick_out) >= 2
    /\ newick_out[Len(newick_out)].ret # newick_out[1].ret
    /\ MaxDepth(ng.out.ret) = 2

\* C7: in every string next() returns the root is "(...)" closed by the
\* terminator alone, with no colon and no branch length, and every other
\* node, leaf or internal, is followed by ':' and time[parent] - time[node]
\* formatted to the precision asked for.
C7_NewickRootAndBranchLengths ==
    \A k \in 1..Len(newick_out) :
        LET a == StartOf(newick_out, k)
        IN newick_out[k].ret = NewickAt(a, RootAt(a), ng.precision)

\* A string was returned for a tree whose root is not the root of the
\* interval before.
C7_Witness ==
    /\ ng.pc = "returned"
    /\ Len(newick_out) >= 2
    /\ ng.root # RootAt(StartOf(newick_out, Len(newick_out) - 1))
    /\ ng.out.ret[Len(ng.out.ret)] = ";"

----------------------------------------------------------------------------
\* The leaves below node v in the tree of locus a.
RECURSIVE LeavesBelowAt(_, _)
LeavesBelowAt(a, v) ==
    IF v \in DOMAIN ChildrenAt(a)
    THEN LeavesBelowAt(a, ChildrenAt(a)[v][1]) \cup LeavesBelowAt(a, ChildrenAt(a)[v][2])
    ELSE {v}

\* C8: every mutation the HaplotypeGenerator places on the branch above a
\* node v gets a column of its own, the next unused one, and in that column
\* exactly the rows of the leaves below v in the tree of the current interval
\* are "1"; every column not yet used is all "0".
C8_MutationMarksLeavesBelow ==
    hg.pc \in {"running", "done"} =>
        /\ hg.num_segregating_sites = Len(mutation_log)
        /\ hg.num_segregating_sites < hg.max_segregating_sites
        /\ \A u \in 1..sample_size :
               /\ Len(hg.haplotype[u]) = hg.max_segregating_sites
               /\ \A c \in 1..hg.max_segregating_sites :
                      hg.haplotype[u][c] =
                          IF /\ c <= Len(mutation_log)
                             /\ u \in LeavesBelowAt(mutation_log[c].locus,
                                                    mutation_log[c].node)
                          THEN "1" ELSE "0"

\* A run that placed MaxSites mutations, in two intervals, one of them above
\* an internal node, and had to grow the matrix.
C8_Witness ==
    /\ hg.pc = "done"
    /\ Len(mutation_log) = MaxSites
    /\ hg.max_segregating_sites > num_loci
    /\ \E i, j \in 1..Len(mutation_log) :
           /\ mutation_log[i].locus # mutation_log[j].locus
           /\ mutation_log[i].node > sample_size
           /\ ChildrenAt(mutation_log[i].locus) # ChildrenAt(mutation_log[j].locus)

\* C9: with a scaled mutation rate of zero the HaplotypeGenerator runs to
\* its end without an error, has no segregating site, every cell of its
\* matrix is "0", and haplotypes() yields sample_size empty rows.
C9_ZeroRateNoSites ==
    hg.scaled_mutation_rate = 0 /\ consumer = "haplotypes" =>
        /\ hg.pc \in {"created", "running", "done"}
        /\ hg.num_segregating_sites = 0
        /\ \A u \in 1..sample_size :
               \A c \in 1..Len(hg.haplotype[u]) : hg.haplotype[u][c] = "0"
        /\ haplotypes(hg) = [u \in 1..sample_size |-> <<>>]

\* A finished run with rate zero over a tree sequence of more than one tree.
C9_Witness ==
    /\ consumer = "haplotypes"
    /\ hg.scaled_mutation_rate = 0
    /\ hg.pc = "done"
    /\ Len(diffs_out) > 1
    /\ hg.total_branch_length > 0

----------------------------------------------------------------------------
\* The records are listed in ascending order of left.
AscendingLeft(recs) == \A i, j \in 1..Len(recs) : i < j => recs[i].left <= recs[j].left

\* recs lists the records of the arrays a, each once, the five fields of a
\* record kept together.
PermutationOf(recs, a) ==
    /\ Len(recs) = Len(a.left)
    /\ \E p \in Perms(Len(recs)) : recs = Take(TreeSequenceRecords(a), p)

\* The arrays the TreeSequence was constructed from.
SourceArrays == IF ts.origin = "load" THEN file ELSE supplied

\* C10 as stated: every TreeSequence, constructed from arrays or obtained
\* from load(), iterates records() in ascending order of left, the records a
\* permutation of the input records, also when the arrays were not sorted.
C10_RecordsAlwaysAscending ==
    consumer = "records" /\ ts # NoTreeSequence =>
        /\ AscendingLeft(TreeSequenceRecords(ts))
        /\ PermutationOf(TreeSequenceRecords(ts), SourceArrays)

\* C10 amended: a TreeSequence constructed with sort_records=True iterates
\* records() in ascending order of left, the records a permutation of the
\* input records with their five fields kept together; one constructed
\* without it, as load() does, iterates the records in the order supplied.
C10_RecordsAscendingWhenSorted ==
    consumer = "records" /\ ts # NoTreeSequence =>
        /\ ts.sort_records =>
               /\ AscendingLeft(TreeSequenceRecords(ts))
               /\ PermutationOf(TreeSequenceRecords(ts), SourceArrays)
        /\ ~ts.sort_records => TreeSequenceRecords(ts) = TreeSequenceRecords(SourceArrays)
        /\ records # <<>> => PermutationOf(records, supplied)
        /\ ts.origin = "load" => ~ts.sort_records

\* A TreeSequence sorted by its constructor from arrays that were not in
\* order and have records with equal left, iterated.
C10_Witness ==
    /\ consumer = "records"
    /\ ts # NoTreeSequence
    /\ ts.sort_records
    /\ ~AscendingLeft(TreeSequenceRecords(supplied))
    /\ \E i, j \in 1..Len(ts.left) : i # j /\ ts.left[i] = ts.left[j]
    /\ records = TreeSequenceRecords(ts)

----------------------------------------------------------------------------
\* The tuple (children, parent, time) diffs() reports for a record.
EdgeOf(rec) == <<rec.children, rec.parent, rec.time>>

\* The indices of the records that start, and of those that end, at locus a.
StartingAt(a) == {i \in 1..Len(records) : records[i].left = a}

EndingAt(a) == {i \in 1..Len(records) : records[i].right = a}

\* The records that start at a, as diffs() reports them, in the order of the list.
RECURSIVE EdgesFrom(_, _)
EdgesFrom(a, i) ==
    IF i > Len(records) THEN <<>>
    ELSE IF records[i].left = a THEN <<EdgeOf(records[i])>> \o EdgesFrom(a, i + 1)
    ELSE EdgesFrom(a, i + 1)

\* C14: the tuple _diffs() emits for the run that starts at L has as
\* records_in exactly the records whose left is L, and as records_out exactly
\* the records seen so far whose right is L, however many runs earlier they
\* started, each once.
C14_DiffsDeltasByLeftAndRight ==
    df.kind = "_diffs" /\ consumer \in Consumers =>
        /\ Len(diffs_out) <= Len(IntervalLefts)
        /\ \A k \in 1..Len(diffs_out) :
               /\ diffs_out[k].records_in = EdgesFrom(IntervalLeft(k), 1)
               /\ SeqRange(diffs_out[k].records_out) =
                      {EdgeOf(records[i]) : i \in EndingAt(IntervalLeft(k))}
               /\ Len(diffs_out[k].records_out) = Cardinality(EndingAt(IntervalLeft(k)))

\* The third run retires two records at once, one that started in the first
\* run and one that started in the second.
C14_Witness ==
    /\ df.kind = "_diffs"
    /\ consumer = "diffs"
    /\ Len(diffs_out) = 3
    /\ \E i, j \in EndingAt(IntervalLeft(3)) :
           /\ records[i].left = IntervalLeft(1)
           /\ records[j].left = IntervalLeft(2)
    /\ Len(diffs_out[3].records_out) = 2

\* C15 as stated: every edge in the records_out of a run is in the
\* records_in of the run emitted directly before it.
C15_RetiresOnlyPrecedingRun ==
    df.kind = "_diffs" /\ consumer \in Consumers =>
        \A k \in 1..Len(diffs_out) :
            \A e \in SeqRange(diffs_out[k].records_out) :
                k > 1 /\ e \in SeqRange(diffs_out[k - 1].records_in)

\* C15 amended: every edge in the records_out of a run is in the records_in
\* of an earlier run, the one at which its record starts, which can be any
\* number of runs before; one record is enough for an edge that is valid
\* across several runs.
C15_RetiresEarlierRuns ==
    df.kind = "_diffs" /\ consumer \in Consumers =>
        \A k \in 1..Len(diffs_out) :
            \A e \in SeqRange(diffs_out[k].records_out) :
                \E j \in 1..(k - 1) :
                    /\ e \in SeqRange(diffs_out[j].records_in)
                    /\ \E i \in StartingAt(IntervalLeft(j)) \cap EndingAt(IntervalLeft(k)) :
                           EdgeOf(records[i]) = e

\* The third run retires an edge of the first run that the second run left
\* alone: no record of the second run has that edge.
C15_Witness ==
    /\ df.kind = "_diffs"
    /\ consumer = "diffs"
    /\ Len(diffs_out) = 3
    /\ \E e \in SeqRange(diffs_out[3].records_out) :
           /\ e \in SeqRange(diffs_out[1].records_in)
           /\ e \notin SeqRange(diffs_out[2].records_in)
           /\ e \notin SeqRange(diffs_out[2].records_out)

----------------------------------------------------------------------------
\* The string of the current tree of the generator, built with no cache.
FromScratch(g) ==
    LET h == _update_subtrees([g EXCEPT !.pc = "running", !.subtree = EmptyDict])
    IN h.subtree[h.root]

\* The tuple the generator of diffs handed out last.
LastDiff(g) == g.diffs.frame.out

\* C16: the string next() returns for an interval is the string of the
\* current tree built from scratch with an empty cache; and for a tuple with
\* empty records_out and records_in it is the string of the interval before.
C16_NewickCacheEqualsFromScratch ==
    consumer = "newick" /\ ng.pc = "returned" =>
        /\ ng.out.ret = FromScratch(ng)
        /\ newick_out[Len(newick_out)] = ng.out
        /\ (/\ LastDiff(ng).records_out = <<>>
            /\ LastDiff(ng).records_in = <<>>
            /\ Len(newick_out) >= 2)
           => newick_out[Len(newick_out)].ret = newick_out[Len(newick_out) - 1].ret

\* A string was returned for a tuple with no deltas, after the tree had
\* changed and part of the cache had been kept across the change.
C16_Witness ==
    /\ consumer = "newick"
    /\ ng.pc = "returned"
    /\ Len(newick_out) >= 3
    /\ LastDiff(ng).records_out = <<>>
    /\ LastDiff(ng).records_in = <<>>
    /\ newick_out[1].ret # newick_out[Len(newick_out)].ret
    /\ sample_size = 3

\* The ancestors of v in the parent map of the generator.
RECURSIVE NewickAncestors(_, _)
NewickAncestors(g, v) ==
    IF v \in DOMAIN g.parent
    THEN {g.parent[v]} \cup NewickAncestors(g, g.parent[v])
    ELSE {}

\* No node without a cached string has an ancestor with one.
UncachedClosed(g) ==
    \A v \in 1..MaxNode :
        v \notin DOMAIN g.subtree => NewickAncestors(g, v) \cap DOMAIN g.subtree = {}

\* The generator after the first m records of records_out were applied.
AfterRecordsOut(g, t, m) == NewickRecordsOut(g, SubSeq(t.records_out, 1, m), 1)

\* The generator after records_out and the first m records of records_in.
AfterRecordsIn(g, t, m) ==
    NewickRecordsIn(AfterRecordsOut(g, t, Len(t.records_out)), SubSeq(t.records_in, 1, m), 1)

\* The generator when _update_subtrees starts.
BeforeRebuild(g, t) ==
    NewickAsserts(NewickFindRoot(
        NewickBranchLengths(AfterRecordsIn(g, t, Len(t.records_in)), t.records_in, 1)))

\* Every point of a call of next() on g at which the claim looks at the cache.
ClosedThroughNext(g) ==
    LET d == DiffsGeneratorNext(g.diffs)
        t == d.frame.out
        g0 == [g EXCEPT !.diffs = d, !.pc = "running"]
    IN Suspended(d.frame) =>
           /\ \A m \in 0..Len(t.records_out) : UncachedClosed(AfterRecordsOut(g0, t, m))
           /\ \A m \in 0..Len(t.records_in) : UncachedClosed(AfterRecordsIn(g0, t, m))
           /\ UncachedClosed(BeforeRebuild(g0, t))

\* C17: in every call of next(), after each record of records_out and of
\* records_in has been applied and when the rebuild starts, no node without
\* a cached string has an ancestor, in the current parent map, with one.
C17_UncachedClosedUnderParent ==
    [][NewickNext => ClosedThroughNext(ng)]_vars

\* A call of next() has returned that retired a record above an internal
\* node: the leaves below that node kept their strings while the node and
\* its ancestors lost theirs.
C17_Witness ==
    /\ consumer = "newick"
    /\ ng.pc = "returned"
    /\ Len(newick_out) >= 2
    /\ LastDiff(ng).records_out # <<>>
    /\ \E v \in 1..sample_size :
           \A i \in 1..Len(LastDiff(ng).records_out) :
               v \notin SeqRange(LastDiff(ng).records_out[i][1])
    /\ UncachedClosed(ng)

----------------------------------------------------------------------------
\* C19: with all_breaks=True and breakpoints that hold 0, every left and
\* num_loci, diffs() emits one tuple for each pair of consecutive
\* breakpoints, in order, with the distance between them as its length; the
\* tuple of a breakpoint that is the left of a run has that run's
\* records_out and records_in, every other tuple two empty lists; the stream
\* ends after len(breakpoints) - 1 tuples without an error.
C19_AllBreaksOneTuplePerBreakpoint ==
    df.kind = "_diffs_with_breaks" /\ consumer = "diffs" =>
        /\ Len(diffs_out) <= Len(breakpoints) - 1
        /\ Finished(df.frame) =>
               df.frame.pc = "StopIteration" /\ Len(diffs_out) = Len(breakpoints) - 1
        /\ \A k \in 1..Len(diffs_out) :
               /\ diffs_out[k].length = breakpoints[k + 1] - breakpoints[k]
               /\ IF breakpoints[k] \in Lefts(records)
                  THEN /\ diffs_out[k].records_in = EdgesFrom(breakpoints[k], 1)
                       /\ SeqRange(diffs_out[k].records_out) =
                              {EdgeOf(records[i]) : i \in EndingAt(breakpoints[k])}
                       /\ Len(diffs_out[k].records_out) = Cardinality(EndingAt(breakpoints[k]))
                  ELSE /\ diffs_out[k].records_in = <<>>
                       /\ diffs_out[k].records_out = <<>>

\* A finished stream over two runs, the first with a breakpoint inside it.
C19_Witness ==
    /\ df.kind = "_diffs_with_breaks"
    /\ consumer = "diffs"
    /\ df.frame.pc = "StopIteration"
    /\ Len(diffs_out) = 3
    /\ diffs_out[2].records_in = <<>>
    /\ diffs_out[3].records_out # <<>>

----------------------------------------------------------------------------
\* The sum of the values of a dict of numbers.
RECURSIVE SumOfValues(_)
SumOfValues(d) ==
    IF DOMAIN d = {} THEN 0
    ELSE LET k == CHOOSE k \in DOMAIN d : TRUE
         IN d[k] + SumOfValues(DictDel(d, k))

\* The nodes that have v among their children in the generator.
HapParentsOf(g, v) == {p \in DOMAIN g.children : v \in SeqRange(g.children[p])}

\* C20: in the HaplotypeGenerator, once the deltas of an interval have been
\* applied, total_branch_length is the sum of branch_length over the nodes
\* that have an entry, and the entry of each such node is the time of its
\* parent minus its own time.
C20_BranchLengthsConsistent ==
    consumer = "haplotypes" /\ hg.pc \in {"running", "done"} =>
        /\ hg.total_branch_length = SumOfValues(hg.branch_length)
        /\ \A v \in DOMAIN hg.branch_length :
               /\ Cardinality(HapParentsOf(hg, v)) = 1
               /\ \A p \in HapParentsOf(hg, v) :
                      /\ p \in DOMAIN hg.time
                      /\ v \in DOMAIN hg.time
                      /\ hg.branch_length[v] = hg.time[p] - hg.time[v]

\* The sum of the branch lengths of the tree of locus a, from the records.
RECURSIVE TotalBranchLengthOf(_)
TotalBranchLengthOf(R) ==
    IF R = {} THEN 0
    ELSE LET rec == CHOOSE rec \in R : TRUE
         IN 2 * rec.time - NodeTime(sample_size, rec.children[1])
                         - NodeTime(sample_size, rec.children[2])
            + TotalBranchLengthOf(R \ {rec})

\* The deltas of a later interval were applied: records were retired and the
\* total is that of the new tree, not that of the first.
C20_Witness ==
    /\ consumer = "haplotypes"
    /\ hg.pc = "running"
    /\ Len(diffs_out) >= 2
    /\ diffs_out[Len(diffs_out)].records_out # <<>>
    /\ sample_size = 3
    /\ hg.total_branch_length # TotalBranchLengthOf(RecordsAt(0))
    /\ hg.total_branch_length =
           TotalBranchLengthOf(RecordsAt(IntervalLeft(Len(diffs_out))))

----------------------------------------------------------------------------
\* A record whose right is neither the left of a later run nor num_loci.
MalformedRights ==
    \E i \in 1..Len(records) :
        records[i].right \notin {records[j].left : j \in 1..Len(records)} \cup {num_loci}

\* C11 as stated: on a list with such a record, whose edge is introduced
\* in records_in and never retired, diffs() fails with an error; it does not
\* run to its end.
C11_DiffsFailsOnMalformed ==
    consumer = "diffs" /\ MalformedRights => df.frame.pc # "StopIteration"

\* What a call of next() can raise out of its own body or out of diffs().
NewickErrors == {"AssertionError", "KeyError", "IndexError", "UnboundLocalError"}

\* C12 as stated: once a call of next() has raised, no later call on the
\* same generator returns a (length, string) result.
C12_NewickErrorIsFatal ==
    [][ng.pc \in NewickErrors => ng'.pc # "returned"]_vars

\* The three counts next() asserts on.
NewickCounts(g) ==
    /\ Cardinality(DOMAIN g.time) = 2 * sample_size - 1
    /\ Cardinality(DOMAIN g.parent) = 2 * sample_size - 2
    /\ Cardinality(DOMAIN g.branch_length) = 2 * sample_size - 1 - 1

\* The records that cover locus a are a binary tree over the sample_size leaves.
CompleteTreeAt(a) ==
    LET R == RecordsAt(a)
        parents == {rec.parent : rec \in R}
        children == UNION {SeqRange(rec.children) : rec \in R}
    IN /\ Cardinality(R) = sample_size - 1
       /\ Cardinality(parents) = sample_size - 1
       /\ Cardinality(children) = 2 * sample_size - 2
       /\ 1..sample_size \subseteq children
       /\ children \subseteq (1..sample_size) \cup parents
       /\ Cardinality(parents \ children) = 1

\* The list is fully coalesced at every locus and every record ends where a
\* run starts or at num_loci.
ValidInput ==
    /\ ~MalformedRights
    /\ \A a \in 0..(num_loci - 1) : CompleteTreeAt(a)

\* C18: next() returns a string only when, with the deltas of the interval
\* applied, 2n - 1 nodes have a time and 2n - 2 nodes a parent and a branch
\* length; on a valid fully-coalesced input the check never fails; and when
\* the counts are not these next() raises instead of returning.
C18_NewickReturnsOnlyWhenCoalesced ==
    consumer = "newick" =>
        /\ ng.pc = "returned" => NewickCounts(ng)
        /\ ng.pc = "AssertionError" => ~NewickCounts(ng)
        /\ (ng.pc \in {"returned"} \cup NewickErrors /\ ~NewickCounts(ng))
               => ng.pc \in NewickErrors
        /\ ValidInput => ng.pc \notin NewickErrors

\* A call raised on an interval that lacks a record, after an earlier
\* interval had its string returned.
C18_Witness ==
    /\ consumer = "newick"
    /\ ng.pc = "AssertionError"
    /\ Len(newick_out) >= 1
    /\ ~CompleteTreeAt(SumSeq(Lengths(newick_out)))
    /\ sample_size = 3

----------------------------------------------------------------------------
\* C13 as stated: the generator an engine draws from is seeded with the seed
\* the engine records, whether a seed was passed or not; so two engines
\* with the same recorded seed and mutation rate over the same tree sequence
\* have the same haplotype matrix.
C13_SameSeedSameHaplotypes ==
    consumer = "engines" =>
        /\ \A e \in 1..2 :
               engines[e].built => engines[e]._rng.seed = engines[e]._random_seed
        /\ (/\ engines[1].built
            /\ engines[2].built
            /\ engines[1]._random_seed = engines[2]._random_seed
            /\ engines[1].scaled_mutation_rate = engines[2].scaled_mutation_rate)
           => haplotypes(engines[1].generator) = haplotypes(engines[2].generator)

----------------------------------------------------------------------------
\* The capacity after a batch that brings the number of sites to new_s.
CapacityAfter(k, new_s) == IF new_s >= k THEN MaxOf(2 * k, new_s + 1) ELSE k

\* C21: the matrix behaves like an unbounded matrix of "0": every round of
\* the loop ends without an error, with num_segregating_sites below
\* max_segregating_sites; the capacity stays when the new number of sites is
\* below it and becomes the larger of twice the old capacity and the new
\* number of sites plus one otherwise; every cell of a column written
\* before the round is unchanged; and every cell of a column at or beyond
\* num_segregating_sites is "0".
C21_MatrixGrowsAndKeepsCells ==
    [][GenerateHaplotypes =>
          /\ hg'.pc \in {"running", "done"}
          /\ hg'.num_segregating_sites < hg'.max_segregating_sites
          /\ hg'.max_segregating_sites =
                 CapacityAfter(hg.max_segregating_sites, hg'.num_segregating_sites)
          /\ \A u \in 1..sample_size :
                 /\ Len(hg'.haplotype[u]) = hg'.max_segregating_sites
                 /\ \A c \in 1..hg.num_segregating_sites :
                        hg'.haplotype[u][c] = hg.haplotype[u][c]
                 /\ \A c \in (hg'.num_segregating_sites + 1)..hg'.max_segregating_sites :
                        hg'.haplotype[u][c] = "0"]_vars

\* A matrix that grew while it held a written column: two loci, a mutation
\* in the first interval and two more in the second.
C21_Witness ==
    /\ consumer = "haplotypes"
    /\ num_loci = 2
    /\ hg.pc = "done"
    /\ Len(diffs_out) = 2
    /\ Len(mutation_log) = 3
    /\ mutation_log[1].locus = 0
    /\ mutation_log[2].locus = 1
    /\ hg.max_segregating_sites = 4
    /\ \E u \in 1..sample_size : hg.haplotype[u][1] = "1"

----------------------------------------------------------------------------
\* What the traversals yield, read from the set of the records alone: the
\* order in which the records are listed plays no part in it.

\* The tree of the k-th interval between two lefts.
TreeOfRecordSet(k) ==
    <<IntervalRight(k) - IntervalLeft(k), ParentPairsAt(IntervalLeft(k)),
      TimePairsAt(IntervalLeft(k))>>

\* The loci at which the NewickGenerator returns a string: the breakpoints
\* with all_breaks, the lefts without.
NewickStarts(all_breaks) ==
    IF all_breaks THEN SubSeq(breakpoints, 1, Len(breakpoints) - 1) ELSE IntervalLefts

\* The k-th pair the NewickGenerator returns.
NewickOfRecordSet(all_breaks, precision, k) ==
    LET starts == NewickStarts(all_breaks)
    IN <<(IF k < Len(starts) THEN starts[k + 1] ELSE num_loci) - starts[k],
         NewickAt(starts[k], RootAt(starts[k]), precision)>>

\* The k-th tree sparse_trees() has yielded, each map as it was when yielded.
TreeYielded(k) ==
    <<trees_out[k].length, DictPairs(trees_out[k].pi_at_yield),
      DictPairs(trees_out[k].tau_at_yield)>>

NewickReturned(k) == <<newick_out[k].length, newick_out[k].ret>>

\* C22: for a valid input listed in any order that is ascending in left,
\* sparse_trees() and the NewickGenerator run to their end without an error
\* and the sequences they yield are those read from the set of the records:
\* two listings that differ in the order of records with the same left give
\* the same (length, parent_map, time_map) and (length, newick string)
\* sequences.
C22_TieOrderDoesNotMatter ==
    /\ Finished(st) => st.pc = "StopIteration" /\ Len(trees_out) = Len(IntervalLefts)
    /\ Finished(ng) =>
           /\ ng.pc = "StopIteration"
           /\ Len(newick_out) = Len(NewickStarts(ng.diffs.kind = "_diffs_with_breaks"))
    /\ Len(trees_out) <= Len(IntervalLefts)
    /\ Len(newick_out) <= Len(NewickStarts(ng.diffs.kind = "_diffs_with_breaks"))
    /\ \A k \in 1..Len(trees_out) : TreeYielded(k) = TreeOfRecordSet(k)
    /\ \A k \in 1..Len(newick_out) :
           NewickReturned(k) =
               NewickOfRecordSet(ng.diffs.kind = "_diffs_with_breaks", ng.precision, k)

\* A finished traversal of a list of three runs of two records each, the
\* first run in ascending and the second in descending order of the parent.
C22_Witness ==
    /\ sample_size = 3
    /\ Len(records) = 6
    /\ records[1].left = records[2].left /\ records[1].parent < records[2].parent
    /\ records[3].left = records[4].left /\ records[3].parent > records[4].parent
    /\ records[5].left = records[6].left
    /\ records[3].children # records[1].children
    /\ \/ st.pc = "StopIteration" /\ Len(trees_out) = 3
       \/ ng.pc = "StopIteration" /\ Len(newick_out) = 3

----------------------------------------------------------------------------
\* The mutations the last round of the loop has placed.
NewMutations == (Len(mutation_log) + 1)..Len(mutation_log')

\* C23: no round of the loop over a valid fully-coalesced input ends in an
\* error, and after a round that drew a positive number of mutations every
\* one of the 2 * sample_size - 2 slots of the candidate arrays holds a node
\* with a branch-length entry in the current tree, each such node once, with
\* its branch length over the total as its weight, the weights summing to
\* one; every node selected is a non-root node of the tree of the current
\* interval, and has a children entry when it is above sample_size.
C23_CandidatesAreCurrentBranches ==
    [][GenerateHaplotypes =>
          /\ hg'.pc \in {"running", "done"}
          /\ NewMutations # {} =>
                 /\ Len(hg'.branches) = 2 * sample_size - 2
                 /\ Len(hg'.probabilities) = 2 * sample_size - 2
                 /\ Cardinality(DOMAIN hg'.branch_length) = 2 * sample_size - 2
                 /\ SeqRange(hg'.branches) = DOMAIN hg'.branch_length
                 /\ hg'.branches = hg'.branch_length_keys
                 /\ \A j \in 1..Len(hg'.branches) :
                        hg'.probabilities[j] =
                            <<hg'.branch_length[hg'.branches[j]], hg'.total_branch_length>>
                 /\ ProbabilitiesSumToOne(hg'.probabilities)
                 /\ \A i \in NewMutations :
                        LET node == mutation_log'[i].node
                        IN /\ node \in SeqRange(hg'.branches)
                           /\ \E pr \in ParentPairsAt(mutation_log'[i].locus) : pr[1] = node
                           /\ node > sample_size => node \in DOMAIN hg'.children]_vars

\* Mutations were drawn in the first interval and again in a later one whose
\* tree has lost a node of the first: the arrays hold the branches of the
\* later tree only.
C23_Witness ==
    /\ consumer = "haplotypes"
    /\ hg.pc = "running"
    /\ Len(diffs_out) >= 2
    /\ Len(mutation_log) >= 2
    /\ mutation_log[1].locus = 0
    /\ mutation_log[Len(mutation_log)].locus = StartOf(diffs_out, Len(diffs_out))
    /\ mutation_log[Len(mutation_log)].locus > 0
    /\ mutation_log[Len(mutation_log)].node > sample_size
    /\ \E pr \in ParentPairsAt(0) : pr[1] \notin SeqRange(hg.branches)
    /\ SeqRange(hg.branches) = DOMAIN hg.branch_length

----------------------------------------------------------------------------
\* The rows that hold "1" in column c of the matrix.
RowsMarked(g, c) == {u \in 1..sample_size : g.haplotype[u][c] = "1"}

\* C24: when the HaplotypeGenerator has processed a valid fully-coalesced
\* input, num_segregating_sites is the number of mutations drawn over all
\* intervals, the c-th column is the column of the c-th mutation drawn, and
\* every column below num_segregating_sites holds a "1" and a "0".
C24_SitesAreMutationsAndSegregate ==
    consumer = "haplotypes" /\ hg.pc = "done" =>
        /\ hg.num_segregating_sites = Len(mutation_log)
        /\ \A u \in 1..sample_size : Len(haplotypes(hg)[u]) = Len(mutation_log)
        /\ \A c \in 1..hg.num_segregating_sites :
               /\ RowsMarked(hg, c) =
                      LeavesBelowAt(mutation_log[c].locus, mutation_log[c].node)
               /\ \E u \in 1..sample_size : haplotypes(hg)[u][c] = "1"
               /\ \E u \in 1..sample_size : haplotypes(hg)[u][c] = "0"

\* A finished run over three samples with MaxSites mutations drawn in two
\* intervals, one of them above an internal node, so that one column holds
\* two "1" and another holds one.
C24_Witness ==
    /\ consumer = "haplotypes"
    /\ hg.pc = "done"
    /\ sample_size = 3
    /\ hg.num_segregating_sites = MaxSites
    /\ mutation_log[1].locus # mutation_log[MaxSites].locus
    /\ \E c, d \in 1..MaxSites :
           Cardinality(RowsMarked(hg, c)) = 2 /\ Cardinality(RowsMarked(hg, d)) = 1

====
